---- MODULE Spec2Model ----
(***************************************************************************)
(* Model of the lkml-bot ingestion pipeline: feed poll, classification,    *)
(* two-phase ingestion inside one database session, patch-card creation    *)
(* and dispatch, the high-water mark, the scheduler loop / run_once and    *)
(* the card-resolution step of the watch command.                          *)
(*                                                                         *)
(* A mail is identified by its message_id_header.  The mails that can      *)
(* appear in the feed form a small fixed universe; what is static about a  *)
(* mail (subject, in-reply-to, Date) is given by the tables Subject, Irt   *)
(* and Ts, everything else is computed from them as the code computes it.  *)
(***************************************************************************)
EXTENDS Integers, Sequences, FiniteSets, TLC

\* ----------------------------------------------------------------------
\* Bounds of the model
\* ----------------------------------------------------------------------
MaxFeed == 3

\* the platform creates at most this many threads
MaxThreads == 2

\* ----------------------------------------------------------------------
\* Absent values
\* ----------------------------------------------------------------------
None == "None"
NoInt == -1

\* ----------------------------------------------------------------------
\* The mailing lists
\* ----------------------------------------------------------------------
Subsystems == {"lkml", "netdev"}

\* ----------------------------------------------------------------------
\* The universe of mails
\* ----------------------------------------------------------------------
Mids == {"cov", "p1", "p2", "chn", "rcv", "sgl", "top", "rep", "ack"}

\* The subject line, as far as parse_patch_subject and classify_message
\* look at it: an "re:" prefix, a bracketed PATCH token, and the i/t pair
\* inside the bracket (NoInt when the bracket has none).
Subj(re, patch, index, total) ==
    [re |-> re, patch |-> patch, index |-> index, total |-> total]

Subject(m) ==
    CASE m = "cov" -> Subj(FALSE, TRUE, 0, 2)        \* [PATCH 0/2] series X
      [] m = "p1"  -> Subj(FALSE, TRUE, 1, 2)        \* [PATCH 1/2] A
      [] m = "p2"  -> Subj(FALSE, TRUE, 2, 2)        \* [PATCH 2/2] B
      [] m = "chn" -> Subj(FALSE, TRUE, 2, 2)        \* [PATCH 2/2] B, chained
      [] m = "rcv" -> Subj(FALSE, TRUE, 0, 2)        \* [PATCH v2 0/2] series X
      [] m = "top" -> Subj(FALSE, TRUE, 1, 2)        \* [PATCH 1/2] C, no cover
      [] m = "rep" -> Subj(TRUE, TRUE, 2, 2)         \* Re: [PATCH 2/2] B
      [] m = "ack" -> Subj(TRUE, TRUE, 2, 2)         \* Re: [PATCH 2/2] B
      [] OTHER     -> Subj(FALSE, TRUE, NoInt, NoInt) \* [PATCH] fix typo

\* thr:in-reply-to of the entry (None when the entry has none)
Irt(m) ==
    CASE m = "p1"  -> "cov"
      [] m = "p2"  -> "cov"
      [] m = "chn" -> "p1"
      [] m = "rcv" -> "cov"
      [] m = "rep" -> "p2"
      [] m = "ack" -> "p2"
      [] OTHER     -> None

\* entry.updated_parsed as a number; 0 stands for an entry without a
\* parseable timestamp
Ts(m) ==
    CASE m = "cov" -> 1
      [] m = "p1"  -> 2
      [] m = "p2"  -> 3
      [] m = "chn" -> 3
      [] m = "rcv" -> 4
      [] m = "top" -> 1
      [] m = "rep" -> 2
      [] m = "ack" -> 4
      [] OTHER     -> 0

\* what the feed of the subsystem can hold: the mails of one of these sets,
\* in any order, MaxFeed of them at most
FeedContents == {{"cov", "p1", "p2", "rcv"}, {"cov", "p1", "chn", "sgl"},
                 {"top", "rep"}}

\* the mails at least one enabled filter rule matches
FilterMatched == {"cov", "p1", "p2", "chn", "sgl"}

\* ----------------------------------------------------------------------
\* Message classifier
\* ----------------------------------------------------------------------
NoInfo == [is_patch |-> FALSE, index |-> NoInt, total |-> NoInt,
           is_cover_letter |-> FALSE]

parse_patch_subject(s) ==
    IF ~s.patch
    THEN NoInfo
    ELSE [is_patch |-> TRUE, index |-> s.index, total |-> s.total,
          is_cover_letter |-> (s.index = 0)]

\* a classifier that looks for the PATCH token before the "re:" prefix
classify_message_patch_first(s, irt, mid) ==
    LET pi == parse_patch_subject(s) IN
    IF pi.is_patch
    THEN [is_patch |-> TRUE, is_reply |-> s.re, is_series_patch |-> FALSE,
          patch_info |-> [pi EXCEPT !.is_cover_letter = FALSE],
          series_message_id |-> None]
    ELSE [is_patch |-> FALSE, is_reply |-> s.re, is_series_patch |-> FALSE,
          patch_info |-> NoInfo, series_message_id |-> None]

\* classify_message
classify_message(s, irt, mid) ==
    LET pi == parse_patch_subject(s) IN
    IF s.re
    THEN [is_patch |-> FALSE, is_reply |-> TRUE, is_series_patch |-> FALSE,
          patch_info |-> NoInfo, series_message_id |-> None]
    ELSE IF ~pi.is_patch
    THEN [is_patch |-> FALSE, is_reply |-> FALSE, is_series_patch |-> FALSE,
          patch_info |-> NoInfo, series_message_id |-> None]
    ELSE IF pi.total /= NoInt /\ pi.total >= 1
    THEN IF irt = None
         THEN [is_patch |-> TRUE, is_reply |-> FALSE, is_series_patch |-> TRUE,
               patch_info |-> [pi EXCEPT !.is_cover_letter = TRUE],
               series_message_id |-> mid]
         ELSE [is_patch |-> TRUE, is_reply |-> FALSE, is_series_patch |-> TRUE,
               patch_info |-> [pi EXCEPT !.is_cover_letter = FALSE],
               series_message_id |-> irt]
    ELSE [is_patch |-> TRUE, is_reply |-> FALSE, is_series_patch |-> FALSE,
          patch_info |-> [pi EXCEPT !.is_cover_letter = FALSE],
          series_message_id |-> None]

Classification(m) == classify_message(Subject(m), Irt(m), m)

\* The FeedMessage row built from an entry and its classification
BuildFeedMessage(m) ==
    LET cl == Classification(m) IN
    [mid |-> m,
     in_reply_to_header |-> Irt(m),
     received_at |-> Ts(m),
     is_patch |-> cl.is_patch,
     is_reply |-> cl.is_reply,
     is_series_patch |-> cl.is_series_patch,
     patch_index |-> cl.patch_info.index,
     patch_total |-> cl.patch_info.total,
     is_cover_letter |-> cl.patch_info.is_cover_letter,
     series_message_id |-> cl.series_message_id]


\* ----------------------------------------------------------------------
\* State
\* ----------------------------------------------------------------------
VARIABLES
    feed,            \* the Atom feed as the server returns it (first = top)
    last_update_dt,  \* FeedProcessor.last_update_dt, the high-water mark
    feed_messages,   \* committed rows of table feed_messages
    patch_cards,     \* committed rows of table patch_cards
    pc,              \* the loop's pass: "idle", "run" (session open),
                     \* "insert" (in create_or_update, between the lookup
                     \* and the INSERT), "exit" (committed)
    entries,         \* the entries get_feed_entries returned to the pass
    saved,           \* number of entries phase 1 has saved
    processed,       \* number of messages phase 2 has handled
    txFm,            \* FeedMessage rows the pass has flushed, not committed
    txCards,         \* PatchCard rows the pass has flushed, not committed
    result,          \* how the loop's last pass ended
    listing,         \* series listing attached to the cover card the pass sent
    platform_failed, \* a platform send of the pass has failed
    errored,         \* phase 2 of the pass has logged an exception
    is_running,      \* LKMLScheduler.is_running
    task_alive,      \* the monitoring_task coroutine exists and has not ended
    exclusive_mode,  \* filter configuration: FilterConfig exclusive_mode
    patch_threads,   \* committed rows of table patch_threads
    platform_threads,\* the threads that exist on the chat platform
    threads_created, \* number of threads the platform has created so far
    w,               \* the watch command in progress and its last reply
    supported,       \* LKMLConfig.get_supported_subsystems(): the configured
                     \* subsystems (vger list and LKML_MANUAL_SUBSYSTEMS)
    subscribed,      \* the names of the Subsystem rows with subscribed = True
    feeds,           \* the feed of each subsystem, where several subsystems
                     \* are polled (feed is the one feed of the other cases)
    overview_updates,\* the thread messages the platform was asked to edit
    notifications,   \* the threads a "Thread updated" notification was sent for
    monitoring_result, \* what the last run_monitoring call came to
    fetch,           \* one call of get_feed_entries: what the server
                     \* answers at each attempt, and what the call did
    send,            \* one platform send: the answers and what the call did
    store,           \* rows of feed_messages with their headers as strings
    overview         \* the replies and reply hierarchies last prepared for
                     \* the thread overview of a series card

vars == <<feed, last_update_dt, feed_messages, patch_cards,
          pc, entries, saved, processed, txFm, txCards, result,
          listing, platform_failed, errored, is_running, task_alive,
          exclusive_mode, patch_threads, platform_threads, threads_created,
          w, supported, subscribed, feeds, overview_updates, notifications,
          monitoring_result, fetch, send, store, overview>>

cmdVars == <<exclusive_mode, patch_threads, platform_threads,
             threads_created, w>>

passVars == <<pc, entries, saved, processed, txFm, txCards, result,
              listing, platform_failed, errored>>

dbVars == <<feed_messages, patch_cards>>

schedVars == <<is_running, task_alive>>

monVars == <<supported, subscribed, feeds, monitoring_result>>

fnVars == <<fetch, send, store, overview>>

replyVars == <<overview_updates, notifications>>

\* ----------------------------------------------------------------------
\* Sequences and tables
\* ----------------------------------------------------------------------
Range(s) == {s[i] : i \in 1..Len(s)}

Rows(tbl, m) == {r \in tbl : r.mid = m}

HasRow(tbl, m) == Rows(tbl, m) /= {}

RowOf(tbl, m) == CHOOSE r \in tbl : r.mid = m

\* INSERT or UPDATE keyed on message_id_header
Upsert(tbl, r) == {x \in tbl : x.mid /= r.mid} \cup {r}

\* what a session sees: the committed rows overlaid with its own writes
View(committed, pending) ==
    {x \in committed : ~HasRow(pending, x.mid)} \cup pending

\* ORDER BY patch_index, received_at
RowBefore(a, b) ==
    \/ a.patch_index < b.patch_index
    \/ a.patch_index = b.patch_index /\ a.received_at < b.received_at

RECURSIVE OrderRows(_)
OrderRows(S) ==
    IF S = {} THEN <<>>
    ELSE LET r == CHOOSE x \in S : \A y \in S : ~RowBefore(y, x)
         IN <<r>> \o OrderRows(S \ {r})

\* list.sort(key=patch_index): stable insertion of x into a sorted list
RECURSIVE InsertByIndex(_, _)
InsertByIndex(x, s) ==
    IF s = <<>> THEN <<x>>
    ELSE IF x.patch_index < Head(s).patch_index THEN <<x>> \o s
    ELSE <<Head(s)>> \o InsertByIndex(x, Tail(s))

RECURSIVE SortByIndex(_)
SortByIndex(s) ==
    IF s = <<>> THEN <<>>
    ELSE LET n == Len(s)
         IN InsertByIndex(s[n], SortByIndex(SubSeq(s, 1, n - 1)))

RECURSIVE SelectSeq2(_, _)
SelectSeq2(s, keep) ==
    IF s = <<>> THEN <<>>
    ELSE IF Head(s) \in keep THEN <<Head(s)>> \o SelectSeq2(Tail(s), keep)
    ELSE SelectSeq2(Tail(s), keep)


\* ----------------------------------------------------------------------
\* Feed poller
\* ----------------------------------------------------------------------
\* FeedProcessor._filter_entries_by_date
RECURSIVE filter_entries_by_date(_, _)
filter_entries_by_date(feed_entries, mark) ==
    IF feed_entries = <<>> THEN <<>>
    ELSE LET e == Head(feed_entries) IN
         IF Ts(e) = 0
         THEN <<e>> \o filter_entries_by_date(Tail(feed_entries), mark)
         ELSE IF Ts(e) > mark
         THEN <<e>> \o filter_entries_by_date(Tail(feed_entries), mark)
         ELSE <<>>

\* FeedProcessor._update_last_update_time
update_last_update_time(es, mark) ==
    IF es = <<>> THEN mark
    ELSE IF Ts(es[1]) /= 0 THEN Ts(es[1])
    ELSE mark

\* a single loop that saves and processes each entry in turn
NextOpInterleaved(n, s, d) ==
    IF d < s THEN "process"
    ELSE IF s < n THEN "save"
    ELSE "commit"

\* FeedProcessor._process_entries: which loop body runs next, given the
\* number of entries n, the number saved s and the number processed d
NextOp(n, s, d) ==
    IF s < n THEN "save"
    ELSE IF d < n THEN "process"
    ELSE "commit"

\* ----------------------------------------------------------------------
\* Exceptions
\* ----------------------------------------------------------------------
ErrKinds == {"RuntimeError", "OSError", "SQLAlchemyError"}

\* except clause around process_email_message in phase 2
Phase2Swallows(kind) == kind \in {"RuntimeError", "ValueError", "AttributeError"}

\* an except clause that catches every exception
SubsystemCatchesAll(kind) == TRUE

\* except clause of LKMLFeedMonitor._process_subsystem
SubsystemCatches(kind) ==
    kind \in {"RuntimeError", "ValueError", "AttributeError", "OSError"}

\* except clause around send_patch_card in _create_and_send_patch_card
SenderCatches(kind) ==
    kind \in {"RuntimeError", "ValueError", "AttributeError"}

\* how a pass that has ended reports: status "ok", "error" (in the errors of
\* the MonitoringResult), "raised" (an exception leaves run_monitoring) or
\* "cancelled", and the kind of the exception
ResultOf(status, kind) == [status |-> status, kind |-> kind]

\* a session block that rolls back on Exception only, so that a
\* CancelledError runs into the commit
SessionExitException(exc) ==
    IF exc \in {"none", "FinishedException", "CancelledError"} THEN "commit"
    ELSE "rollback"

\* LKMLDatabase.get_db_session: what leaving the session block does
SessionExit(exc) ==
    IF exc = "none" THEN "commit"
    ELSE IF exc = "FinishedException" THEN "commit"
    ELSE "rollback"

\* ----------------------------------------------------------------------
\* Patch-card service
\* ----------------------------------------------------------------------
\* FeedMessageService._process_patch_message, the series sub-patch test
IsSkippedSubPatch(cl, fm) ==
    /\ cl.series_message_id /= None
    /\ cl.patch_info.is_patch
    /\ ~(\/ cl.patch_info.is_cover_letter
         \/ fm.is_cover_letter
         \/ (cl.patch_info.index /= NoInt /\ cl.patch_info.index = 0))

\* FeedMessageService._convert_to_service_feed_message
convert_to_service_feed_message(fm, pi, smid) ==
    [mid |-> fm.mid,
     is_series_patch |-> (smid /= None /\ pi.total /= NoInt /\ pi.total > 1),
     patch_index |-> pi.index,
     patch_total |-> pi.total,
     is_cover_letter |-> pi.is_cover_letter,
     series_message_id |-> smid]

\* the exclusive_mode PatchCardFilterService.should_create_patch_card works
\* with: the stored configuration when the service was given a
\* filter_config_repo, False when it was not
get_exclusive_mode(filter_config_repo) ==
    IF filter_config_repo THEN exclusive_mode ELSE FALSE

\* PatchCardFilterService.should_create_patch_card, as constructed by
\* FeedMessageService._should_create_patch_card: no filter_config_repo is
\* passed, so exclusive_mode reads as False
should_create_patch_card(m) ==
    LET exclusive == get_exclusive_mode(FALSE)
        matched == m \in FilterMatched
    IN IF exclusive THEN matched ELSE TRUE

\* a listing read from the committed rows only
get_series_patches_committed(view, m, sfm) ==
    IF ~(sfm.is_cover_letter /\ sfm.series_message_id /= None)
    THEN <<>>
    ELSE LET sub == OrderRows({r \in feed_messages :
                        r.series_message_id = sfm.series_message_id})
             keep == {r \in feed_messages : r.patch_index /= 0 /\ r.mid /= m}
         IN SortByIndex(SelectSeq2(sub, keep))

\* FeedMessageService._get_series_patches_for_cover_letter
get_series_patches_for_cover_letter(view, m, sfm) ==
    IF ~(sfm.is_cover_letter /\ sfm.series_message_id /= None)
    THEN <<>>
    ELSE LET sub == OrderRows({r \in view :
                        r.series_message_id = sfm.series_message_id})
             keep == {r \in view : r.patch_index /= 0 /\ r.mid /= m}
         IN SortByIndex(SelectSeq2(sub, keep))

\* the PatchCard row written by PatchCardService.create_patch_card_for_discord
\* (the callers name it create_patch_card)
create_patch_card(sfm) ==
    [mid |-> sfm.mid,
     is_series_patch |-> (sfm.is_series_patch
                          \/ (sfm.patch_total /= NoInt /\ sfm.patch_total > 1)),
     series_message_id |-> sfm.series_message_id,
     patch_index |-> sfm.patch_index,
     patch_total |-> sfm.patch_total,
     is_cover_letter |-> sfm.is_cover_letter,
     has_thread |-> FALSE]

\* an existence check that never finds the card
exists_never(cards, m) == FALSE

\* PatchCardService.exists_by_message_id_header, asked in a session of its
\* own: it sees the committed cards only
exists_by_message_id_header(cards, m) == HasRow(cards, m)

\* the message handed to the card service in phase 2
ServiceFeedMessage(view, m) ==
    LET cl == Classification(m) IN
    convert_to_service_feed_message(RowOf(view, m), cl.patch_info,
                                    cl.series_message_id)

\* FeedMessageService._process_patch_message: the message goes on to
\* _create_and_send_patch_card
NeedsPatchCard(cards, view, m) ==
    LET cl == Classification(m) IN
    /\ cl.is_patch
    /\ ~exists_by_message_id_header(cards, m)
    /\ ~IsSkippedSubPatch(cl, RowOf(view, m))
    /\ should_create_patch_card(m)

\* what the platform does with one card: accepts it, answers with an error
\* status, or does not answer (timeout, connection error)
SendOutcomes == {"ok", "status", "timeout"}

\* a client that lets the timeout of the HTTP call escape
send_discord_embed_raising(outcome) ==
    IF outcome = "ok" THEN [id |-> TRUE, exc |-> "none"]
    ELSE IF outcome = "status" THEN [id |-> FALSE, exc |-> "none"]
    ELSE [id |-> FALSE, exc |-> "TimeoutException"]

\* send_discord_embed: the platform message id is returned on success;
\* an error status, httpx.TimeoutException and httpx.HTTPError all end in
\* "return None"
send_discord_embed(outcome) ==
    IF outcome = "ok" THEN [id |-> TRUE, exc |-> "none"]
    ELSE IF outcome = "status" THEN [id |-> FALSE, exc |-> "none"]
    ELSE [id |-> FALSE, exc |-> "none"]

\* ----------------------------------------------------------------------
\* The watch command between two invocations: no locals, and the reply the
\* last invocation gave
\* ----------------------------------------------------------------------
NoThread == 0

WatchIdle(reply) ==
    [pc |-> "idle", mid |-> None, recreate |-> FALSE, stale |-> NoThread,
     thread_id |-> NoThread, sent |-> {}, reply |-> reply]

\* ----------------------------------------------------------------------
\* Initial state: a fresh store, nothing published, scheduler not started
\* ----------------------------------------------------------------------
\* no cycle has run, no fetch and no send is under way
NoCycle ==
    [order |-> <<>>, outcomes |-> [s \in {"lkml", "netdev"} |-> "ok"],
     returned |-> FALSE,
     total_subsystems |-> 0, processed |-> {}, error_count |-> 0]

NoCall == [responses |-> <<>>, done |-> FALSE, attempts |-> 0,
           slept |-> <<>>, ok |-> FALSE]

\* a reply hierarchy of no replies, and the overview data before any was
\* prepared
EmptyHierarchy ==
    [reply_map |-> <<>>, root_replies |-> <<>>, parent |-> <<>>,
     links |-> <<>>]

NoOverview ==
    [done |-> FALSE, replies |-> <<>>, reply_hierarchy |-> EmptyHierarchy,
     sub_patch_overviews |-> <<>>]

FnIdle ==
    /\ monitoring_result = NoCycle
    /\ fetch = NoCall
    /\ send = NoCall
    /\ store = {}
    /\ overview = NoOverview

Init ==
    /\ feed = <<>>
    /\ last_update_dt = 0
    /\ feed_messages = {}
    /\ patch_cards = {}
    /\ pc = "idle"
    /\ entries = <<>>
    /\ saved = 0
    /\ processed = 0
    /\ txFm = {}
    /\ txCards = {}
    /\ result = ResultOf("none", "none")
    /\ listing = <<>>
    /\ platform_failed = FALSE
    /\ errored = FALSE
    /\ is_running = FALSE
    /\ task_alive = FALSE
    /\ exclusive_mode = FALSE
    /\ patch_threads = {}
    /\ platform_threads = {}
    /\ threads_created = 0
    /\ w = WatchIdle("none")
    /\ supported = {"lkml"}
    /\ subscribed = {"lkml"}
    /\ feeds = [s \in Subsystems |-> <<>>]
    /\ overview_updates = {}
    /\ notifications = {}
    /\ FnIdle

\* ----------------------------------------------------------------------
\* The mailing list: a new mail arrives on top of the feed
\* ----------------------------------------------------------------------
Publish(m) ==
    /\ m \notin Range(feed)
    /\ Len(feed) < MaxFeed
    /\ \E t \in FeedContents : Range(feed) \cup {m} \subseteq t
    /\ feed' = <<m>> \o feed
    /\ UNCHANGED <<last_update_dt, dbVars, passVars, schedVars>>
    /\ UNCHANGED cmdVars
    /\ UNCHANGED <<monVars, replyVars, fnVars>>

\* ----------------------------------------------------------------------
\* A pass of FeedProcessor.process_feed run by the scheduler loop, one
\* await at a time
\* ----------------------------------------------------------------------
\* process_feed returns or raises: its locals are gone
EndPass(status, kind) ==
    /\ pc' = "idle"
    /\ result' = ResultOf(status, kind)
    /\ entries' = <<>>
    /\ saved' = 0
    /\ processed' = 0
    /\ txFm' = {}
    /\ txCards' = {}
    /\ listing' = <<>>
    /\ platform_failed' = FALSE
    /\ errored' = FALSE

\* get_feed_entries and the opening of the session
BeginPass ==
    /\ pc = "idle"
    /\ is_running /\ task_alive
    /\ LET es == filter_entries_by_date(feed, last_update_dt) IN
       IF es = <<>>
       THEN /\ result' = ResultOf("ok", "none")
            /\ UNCHANGED <<pc, entries>>
       ELSE /\ result' = ResultOf("none", "none")
            /\ pc' = "run"
            /\ entries' = es
    /\ UNCHANGED <<feed, last_update_dt, dbVars, saved, processed, txFm,
                   txCards, listing, platform_failed, errored, schedVars>>
    /\ UNCHANGED cmdVars
    /\ UNCHANGED <<monVars, replyVars, fnVars>>

\* phase 1, one entry: FeedProcessor.save_feed_message up to the lookups
\* of save_feed_message and create_or_update; a row that is found is
\* returned as it is
SaveStep ==
    /\ pc = "run"
    /\ NextOp(Len(entries), saved, processed) = "save"
    /\ LET m == entries[saved + 1] IN
       IF HasRow(View(feed_messages, txFm), m)
       THEN saved' = saved + 1 /\ pc' = pc
       ELSE saved' = saved /\ pc' = "insert"
    /\ UNCHANGED <<feed, last_update_dt, dbVars, entries, processed, txFm,
                   txCards, result, listing, platform_failed, errored,
                   schedVars>>
    /\ UNCHANGED cmdVars
    /\ UNCHANGED <<monVars, replyVars, fnVars>>

\* FeedMessageRepository.create_or_update from the INSERT on, for a row the
\* lookup did not find.  When the row has been committed by another pass in
\* the meantime the flush raises IntegrityError; the flush has then rolled
\* the session's transaction back, and the lookup in the except clause, run
\* on the same session, raises PendingRollbackError.
create_or_update(committed, pending, r) ==
    IF HasRow(committed, r.mid)
    THEN [rows |-> {}, exc |-> "PendingRollbackError"]
    ELSE [rows |-> Upsert(pending, r), exc |-> "none"]

\* an exception leaves the session block of process_feed
FailPass(kind) ==
    /\ IF SessionExit(kind) = "rollback"
       THEN UNCHANGED dbVars
       ELSE /\ feed_messages' = View(feed_messages, txFm)
            /\ patch_cards' = patch_cards \cup txCards
    /\ EndPass(IF SubsystemCatches(kind) THEN "error" ELSE "raised", kind)
    /\ task_alive' = SubsystemCatches(kind)
    /\ UNCHANGED is_running

\* phase 1, one entry: the INSERT of create_or_update
InsertStep ==
    /\ pc = "insert"
    /\ LET m == entries[saved + 1]
           res == create_or_update(feed_messages, txFm, BuildFeedMessage(m))
       IN IF res.exc /= "none"
          THEN FailPass(res.exc)
          ELSE /\ txFm' = res.rows
               /\ saved' = saved + 1
               /\ pc' = "run"
               /\ UNCHANGED <<dbVars, entries, processed, txCards, result,
                              listing, platform_failed, errored, schedVars>>
    /\ UNCHANGED <<feed, last_update_dt>>
    /\ UNCHANGED cmdVars
    /\ UNCHANGED <<monVars, replyVars, fnVars>>

\* ----------------------------------------------------------------------
\* Series listing of a stored card
\* ----------------------------------------------------------------------
\* a query on message_id_header alone
find_series_patches_by_id(fms, S) ==
    OrderRows({r \in fms : r.mid = S /\ r.is_patch})

\* FeedMessageRepository.find_series_patches
find_series_patches(fms, S) ==
    OrderRows({r \in fms : (r.mid = S \/ r.series_message_id = S)
                           /\ r.is_patch})

\* PatchCardService._build_series_patches_info
build_series_patches_info(rows) ==
    [i \in 1..Len(rows) |->
        LET pi == parse_patch_subject(Subject(rows[i].mid)) IN
        [message_id |-> rows[i].mid,
         patch_index |-> IF pi.index /= NoInt THEN pi.index ELSE 0,
         patch_total |-> IF pi.total /= NoInt THEN pi.total ELSE 0]]

\* PatchCardService.get_series_patches
get_series_patches(fms, S) ==
    LET rows == find_series_patches(fms, S) IN
    IF rows /= <<>> THEN build_series_patches_info(rows) ELSE <<>>

\* a PatchCard as read back from table patch_cards, which has no
\* is_cover_letter column
repo_data_to_service_data(c) == [c EXCEPT !.is_cover_letter = FALSE]

\* PatchCardService.get_patch_card_with_series_data
get_patch_card_with_series_data(cards, fms, m) ==
    LET c == repo_data_to_service_data(RowOf(cards, m)) IN
    [mid |-> m,
     series_patches |->
        IF c.is_series_patch /\ c.series_message_id /= None
        THEN get_series_patches(fms, c.series_message_id)
        ELSE <<>>]

\* ----------------------------------------------------------------------
\* A REPLY and the thread of its card
\* ----------------------------------------------------------------------
\* a key of a Python dict, by its type and its printed value: the int 1 and
\* the str "1" are different keys
IntKey(i) == <<"int", ToString(i)>>

StrKey(i) == <<"str", ToString(i)>>

\* column sub_patch_messages (JSON) as a later session reads it: the
\* serializer writes every key of the object as a string, and the
\* deserializer returns the keys as the strings they are
json_column(map) ==
    [k \in {StrKey(i) : i \in DOMAIN map} |->
        map[CHOOSE i \in DOMAIN map : StrKey(i) = k]]

\* dict.get: the value in a set, the empty set for None
dict_get(dict, key) == IF key \in DOMAIN dict THEN {dict[key]} ELSE {}

\* PatchCardRepository.find_series_patch_card: the cards of the series that
\* have a platform message (every card of the model has one); the code
\* takes the first by created_at
find_series_patch_card(cards, S) ==
    {c.mid : c \in {x \in cards : x.series_message_id = S}}

\* FeedMessageService._find_patch_card_for_reply: the card the reply
\* answers, or the series card of the sub-patch it answers
find_patch_card_for_reply(cards, fms, irt) ==
    IF HasRow(cards, irt) THEN {irt}
    ELSE IF HasRow(fms, irt) /\ RowOf(fms, irt).series_message_id /= None
    THEN find_series_patch_card(cards, RowOf(fms, irt).series_message_id)
    ELSE {}

\* FeedMessageService._find_target_patch_for_reply: the patch_index of the
\* patch the reply answers, in a set
find_target_patch_for_reply(cards, fms, c, irt) ==
    LET card == repo_data_to_service_data(RowOf(cards, c))
        sp == get_patch_card_with_series_data(cards, fms, c).series_patches
        hits == {i \in 1..Len(sp) : /\ sp[i].patch_index /= 0
                                    /\ sp[i].message_id = irt}
    IN IF ~card.is_series_patch
       THEN IF c = irt THEN {1} ELSE {}
       ELSE IF hits = {} THEN {}
       ELSE {sp[CHOOSE i \in hits : \A j \in hits : i <= j].patch_index}

\* FeedMessageService._process_reply_message for the entry m, with the
\* platform accepting the edit: the pairs <<thread, message>> of the
\* messages update_thread_overview is called for. The thread is the one
\* find_by_message_id_header reads for the card, and its map is looked up
\* with the int patch_index.
process_reply_message(cards, fms, threads, m) ==
    IF ~Classification(m).is_reply \/ Irt(m) = None THEN {}
    ELSE UNION {
        IF ~HasRow(threads, c) \/ ~RowOf(threads, c).is_active THEN {}
        ELSE LET t == RowOf(threads, c) IN
             {<<t.thread_id, msg>> :
                 msg \in UNION {dict_get(json_column(t.sub_patch_messages),
                                         IntKey(k)) :
                     k \in find_target_patch_for_reply(cards, fms, c,
                                                       Irt(m))}} :
        c \in find_patch_card_for_reply(cards, fms, Irt(m))}

\* _send_thread_update_notification after each successful edit
thread_update_notifications(updates) == {u[1] : u \in updates}

\* phase 2, one message: FeedMessageService.process_email_message
ProcessStep(outcome) ==
    /\ pc = "run"
    /\ NextOp(Len(entries), saved, processed) = "process"
    /\ LET m == entries[processed + 1]
           view == View(feed_messages, txFm)
           sfm == ServiceFeedMessage(view, m)
           sent == send_discord_embed(outcome)
       IN IF ~NeedsPatchCard(patch_cards, view, m)
          THEN /\ outcome = "ok"
               /\ processed' = processed + 1
               /\ UNCHANGED <<dbVars, pc, entries, saved, txFm, txCards,
                              result, listing, platform_failed, errored,
                              schedVars>>
          ELSE IF /\ sent.exc /= "none"
                  /\ ~SenderCatches(sent.exc)
                  /\ ~Phase2Swallows(sent.exc)
          THEN FailPass(sent.exc)
          ELSE /\ processed' = processed + 1
               /\ IF sent.id
                  THEN /\ listing' =
                             IF sfm.is_cover_letter
                             THEN get_series_patches_for_cover_letter(
                                      view, m, sfm)
                             ELSE listing
                       /\ txCards' = txCards \cup {create_patch_card(sfm)}
                       /\ UNCHANGED platform_failed
                  ELSE /\ platform_failed' = TRUE
                       /\ UNCHANGED <<txCards, listing>>
               /\ UNCHANGED <<dbVars, pc, entries, saved, txFm, result,
                              errored, schedVars>>
    /\ LET updates == process_reply_message(
                          patch_cards \cup txCards,
                          View(feed_messages, txFm), patch_threads,
                          entries[processed + 1])
       IN /\ overview_updates' = overview_updates \cup updates
          /\ notifications' =
                 notifications \cup thread_update_notifications(updates)
    /\ UNCHANGED <<feed, last_update_dt>>
    /\ UNCHANGED cmdVars
    /\ UNCHANGED <<monVars, fnVars>>

\* an exception of the given kind is raised by the step the pass is at
Raise(kind) ==
    /\ pc = "run"
    /\ IF /\ NextOp(Len(entries), saved, processed) = "process"
          /\ Phase2Swallows(kind)
       THEN \* logged by _process_entries; the pass goes on
            /\ processed' = processed + 1
            /\ errored' = TRUE
            /\ UNCHANGED <<pc, entries, saved, txFm, txCards, result,
                           listing, platform_failed, schedVars, dbVars>>
       ELSE FailPass(kind)
    /\ UNCHANGED <<feed, last_update_dt>>
    /\ UNCHANGED cmdVars
    /\ UNCHANGED <<monVars, replyVars, fnVars>>

CardConflict == \E c \in txCards : HasRow(patch_cards, c.mid)

\* session.commit() at the end of process_feed's session block
CommitStep ==
    /\ pc = "run"
    /\ NextOp(Len(entries), saved, processed) = "commit"
    /\ ~CardConflict
    /\ feed_messages' = View(feed_messages, txFm)
    /\ patch_cards' = patch_cards \cup txCards
    /\ pc' = "exit"
    /\ txFm' = {}
    /\ txCards' = {}
    /\ UNCHANGED <<feed, last_update_dt, entries, saved, processed, result,
                   listing, platform_failed, errored, schedVars>>
    /\ UNCHANGED cmdVars
    /\ UNCHANGED <<monVars, replyVars, fnVars>>

\* the unique constraint on patch_cards.message_id_header rejects the
\* commit: an IntegrityError, which no caller up to the loop catches
CommitConflict ==
    /\ pc = "run"
    /\ NextOp(Len(entries), saved, processed) = "commit"
    /\ CardConflict
    /\ EndPass("raised", "IntegrityError")
    /\ task_alive' = FALSE
    /\ UNCHANGED <<feed, last_update_dt, dbVars, is_running>>
    /\ UNCHANGED cmdVars
    /\ UNCHANGED <<monVars, replyVars, fnVars>>

\* the session block is left and _update_last_update_time runs
FinishPass ==
    /\ pc = "exit"
    /\ last_update_dt' = update_last_update_time(entries, last_update_dt)
    /\ EndPass("ok", "none")
    /\ UNCHANGED <<feed, dbVars, schedVars>>
    /\ UNCHANGED cmdVars
    /\ UNCHANGED <<monVars, replyVars, fnVars>>

\* ----------------------------------------------------------------------
\* run_once: the same process_feed, started by the run-monitor command.
\* The pass is taken in one step, between two awaits of the loop's pass;
\* outcome is what the platform answers to the sends of this pass.
\* ----------------------------------------------------------------------
RunOnce(outcome) ==
    LET es == filter_entries_by_date(feed, last_update_dt)
        view == View(feed_messages,
                     {BuildFeedMessage(m) : m \in
                         {x \in Range(es) : ~HasRow(feed_messages, x)}})
        needed == {m \in Range(es) : NeedsPatchCard(patch_cards, view, m)}
    IN /\ es /= <<>>
       /\ feed_messages' = view
       /\ patch_cards' =
              IF send_discord_embed(outcome).id
              THEN patch_cards \cup
                   {create_patch_card(ServiceFeedMessage(view, m)) :
                       m \in needed}
              ELSE patch_cards
       /\ last_update_dt' = update_last_update_time(es, last_update_dt)
       /\ LET updates == UNION {process_reply_message(
                                    patch_cards, view, patch_threads, m) :
                                m \in Range(es)}
          IN /\ overview_updates' = overview_updates \cup updates
             /\ notifications' =
                    notifications \cup thread_update_notifications(updates)
       /\ UNCHANGED <<feed, passVars, schedVars>>
       /\ UNCHANGED cmdVars
       /\ UNCHANGED <<monVars, fnVars>>

\* ----------------------------------------------------------------------
\* Scheduler
\* ----------------------------------------------------------------------
\* a start that does not look at the configuration
start_unchecked(running, supp, subs) ==
    IF running THEN [is_running |-> TRUE, created |-> FALSE]
    ELSE [is_running |-> TRUE, created |-> TRUE]

\* LKMLScheduler.start: the new is_running and whether a monitoring_task was
\* created. A running scheduler is left alone; otherwise the scheduler
\* starts unless get_supported_subsystems() is empty. The subscriptions
\* are not read.
start(running, supp, subs) ==
    IF running THEN [is_running |-> TRUE, created |-> FALSE]
    ELSE IF supp = {} THEN [is_running |-> FALSE, created |-> FALSE]
    ELSE [is_running |-> TRUE, created |-> TRUE]

\* LKMLScheduler.start on a scheduler that is not running
Start ==
    /\ ~is_running
    /\ is_running' = start(is_running, supported, subscribed).is_running
    /\ task_alive' = (start(is_running, supported, subscribed).created
                      \/ task_alive)
    /\ UNCHANGED <<feed, last_update_dt, dbVars, passVars>>
    /\ UNCHANGED cmdVars
    /\ UNCHANGED <<monVars, replyVars, fnVars>>

\* a stop that clears the flag and leaves the task to end by itself
stop_flag_only(running, alive) ==
    [is_running |-> FALSE, task_alive |-> alive, cancel |-> FALSE]

\* LKMLScheduler.stop: the new is_running, whether the task is still there
\* afterwards, and whether a task that had not ended was cancelled
stop(running, alive) ==
    IF ~running
    THEN [is_running |-> running, task_alive |-> alive, cancel |-> FALSE]
    ELSE [is_running |-> FALSE, task_alive |-> FALSE, cancel |-> alive]

\* LKMLScheduler.stop on a running scheduler: the task is cancelled at the
\* await it is suspended at (on a scheduler that is not running the call
\* returns at once and is no step)
Stop ==
    /\ is_running
    /\ is_running' = stop(is_running, task_alive).is_running
    /\ task_alive' = stop(is_running, task_alive).task_alive
    /\ IF stop(is_running, task_alive).cancel /\ pc /= "idle"
       THEN /\ IF pc \in {"run", "insert"}
                  /\ SessionExit("CancelledError") = "commit"
               THEN /\ feed_messages' = View(feed_messages, txFm)
                    /\ patch_cards' = patch_cards \cup txCards
               ELSE UNCHANGED dbVars
            /\ EndPass("cancelled", "CancelledError")
       ELSE UNCHANGED <<dbVars, passVars>>
    /\ UNCHANGED <<feed, last_update_dt>>
    /\ UNCHANGED cmdVars
    /\ UNCHANGED <<monVars, replyVars, fnVars>>

\* ----------------------------------------------------------------------
\* The watch command, up to the resolution of its PatchCard
\* ----------------------------------------------------------------------
\* watch._validate_patch_message
validate_patch_message(fm) ==
    fm.is_patch /\ parse_patch_subject(Subject(fm.mid)).is_patch

\* watch._find_or_create_cover_letter_from_id: the card to return, the
\* message to create a card from, nothing, or the end of the command
find_or_create_cover_letter_from_id(cards, fms, S) ==
    IF HasRow(cards, S) THEN [kind |-> "existing", mid |-> S]
    ELSE IF ~HasRow(fms, S) THEN [kind |-> "finish", mid |-> None]
    ELSE IF ~validate_patch_message(RowOf(fms, S))
    THEN [kind |-> "nothing", mid |-> None]
    ELSE [kind |-> "create", mid |-> S]

\* watch._find_or_create_patch_card, steps 2 to 5
find_from_feed_messages(cards, fms, m) ==
    IF ~HasRow(fms, m) THEN [kind |-> "finish", mid |-> None]
    ELSE LET fm == RowOf(fms, m)
             pi == parse_patch_subject(Subject(m))
         IN IF ~validate_patch_message(fm)
            THEN [kind |-> "nothing", mid |-> None]
            ELSE IF /\ fm.series_message_id /= None
                    /\ ~pi.is_cover_letter
                    /\ pi.index /= NoInt
                    /\ pi.index > 0
            THEN find_or_create_cover_letter_from_id(
                     cards, fms, fm.series_message_id)
            ELSE [kind |-> "create", mid |-> m]

\* watch._find_or_create_patch_card
find_or_create_patch_card(cards, fms, m) ==
    IF HasRow(cards, m)
    THEN LET c == repo_data_to_service_data(RowOf(cards, m)) IN
         IF c.series_message_id /= None /\ ~c.is_cover_letter
         THEN LET r == find_or_create_cover_letter_from_id(
                           cards, fms, c.series_message_id)
              IN IF r.kind = "nothing"
                 THEN find_from_feed_messages(cards, fms, m)
                 ELSE r
         ELSE [kind |-> "existing", mid |-> m]
    ELSE find_from_feed_messages(cards, fms, m)

\* watch._build_service_feed_message
build_service_feed_message(fm, pi) ==
    [mid |-> fm.mid,
     is_series_patch |-> (fm.is_series_patch
                          \/ (pi.total /= NoInt /\ pi.total > 1)),
     patch_index |-> pi.index,
     patch_total |-> pi.total,
     is_cover_letter |-> pi.is_cover_letter,
     series_message_id |-> fm.series_message_id]

\* the watch command for message m, with the outcome of the send it makes
\* when it has to create a card
Watch(m, outcome) ==
    LET plan == find_or_create_patch_card(patch_cards, feed_messages, m) IN
    /\ plan.kind = "create"
    /\ IF send_discord_embed(outcome).id
       THEN LET fm == RowOf(feed_messages, plan.mid)
                pi == parse_patch_subject(Subject(plan.mid))
            IN patch_cards' = patch_cards \cup
                   {create_patch_card(build_service_feed_message(fm, pi))}
       ELSE UNCHANGED patch_cards
    /\ UNCHANGED <<feed, last_update_dt, feed_messages, passVars, schedVars>>
    /\ UNCHANGED cmdVars
    /\ UNCHANGED <<monVars, replyVars, fnVars>>

\* ----------------------------------------------------------------------
\* Filter configuration command
\* ----------------------------------------------------------------------
\* the filter command's exclusive on / off
SetExclusive(enabled) ==
    /\ exclusive_mode /= enabled
    /\ exclusive_mode' = enabled
    /\ UNCHANGED <<feed, last_update_dt, dbVars, passVars, schedVars,
                   patch_threads, platform_threads, threads_created, w>>
    /\ UNCHANGED <<monVars, replyVars, fnVars>>

\* ----------------------------------------------------------------------
\* Thread overview
\* ----------------------------------------------------------------------
\* helpers.build_single_patch_info: the one overview entry of a single PATCH
build_single_patch_info(c) ==
    [message_id |-> c.mid, patch_index |-> 1, patch_total |-> 1]

\* an overview that keeps the cover letter's entry
prepare_thread_overview_data_unfiltered(cards, fms, m) ==
    LET c == repo_data_to_service_data(RowOf(cards, m))
        sp == get_patch_card_with_series_data(cards, fms, m).series_patches
    IN IF c.is_series_patch /\ sp /= <<>>
       THEN sp
       ELSE <<build_single_patch_info(c)>>

\* ThreadService.prepare_thread_overview_data: the patch of each entry of
\* sub_patch_overviews
prepare_thread_overview_data(cards, fms, m) ==
    LET c == repo_data_to_service_data(RowOf(cards, m))
        sp == get_patch_card_with_series_data(cards, fms, m).series_patches
    IN IF c.is_series_patch /\ sp /= <<>>
       THEN SelectSeq(sp, LAMBDA e : e.patch_index /= 0)
       ELSE <<build_single_patch_info(c)>>

\* the rendered overview: one message per entry, keyed by its patch_index
render(overviews) == {overviews[i].patch_index : i \in 1..Len(overviews)}

\* ----------------------------------------------------------------------
\* The chat platform's threads
\* ----------------------------------------------------------------------
ThreadsOf(plat, m) == {p \in plat : p.mid = m}

ThreadExists(plat, t) == \E p \in plat : p.id = t

\* what the platform answers when asked for a thread: 200 for a thread that
\* exists, 404 for one that does not, or no usable answer (another status,
\* a timeout)
CheckOutcomes(plat, t) ==
    IF ThreadExists(plat, t) THEN {"200", "timeout"} ELSE {"404", "timeout"}

\* a check that never finds the thread
check_thread_exists_never(chk) == FALSE

\* check_thread_exists: True on 200; False on 404, on any other status and
\* on httpx.HTTPError
check_thread_exists(chk) == chk = "200"

CreateOutcomes == {"ok", "fail"}

\* create_discord_thread for the card message of m: the id of the new
\* thread; the id of the thread the message already has (error 160004 and
\* get_existing_thread_id); NoThread on any failure
create_discord_thread(plat, created, m, co) ==
    IF co /= "ok"
    THEN [thread_id |-> NoThread, plat |-> plat, created |-> created]
    ELSE IF ThreadsOf(plat, m) /= {}
    THEN [thread_id |-> (CHOOSE p \in ThreadsOf(plat, m) : TRUE).id,
          plat |-> plat, created |-> created]
    ELSE [thread_id |-> created + 1,
          plat |-> plat \cup {[id |-> created + 1, mid |-> m, msgs |-> {},
                                resent |-> FALSE]},
          created |-> created + 1]

\* DiscordClient.send_thread_overview: the messages whose send succeeded
\* are in the thread and in the map returned; resent records that the
\* thread now holds more than one message for some entry
send_thread_overview(plat, t, sent) ==
    {IF p.id = t
     THEN [p EXCEPT !.msgs = @ \cup sent,
                    !.resent = IF @ THEN TRUE ELSE p.msgs \cap sent /= {}]
     ELSE p : p \in plat}

\* MultiPlatformThreadSender.create_thread_and_send_overview
create_thread_and_send_overview(plat, created, m, co, sent) ==
    LET r == create_discord_thread(plat, created, m, co) IN
    IF r.thread_id = NoThread
    THEN [thread_id |-> NoThread, sent |-> {}, plat |-> r.plat,
          created |-> r.created]
    ELSE [thread_id |-> r.thread_id, sent |-> sent,
          plat |-> send_thread_overview(r.plat, r.thread_id, sent),
          created |-> r.created]

\* the user deletes a thread on the platform
PlatformDeleteThread(t) ==
    /\ ThreadExists(platform_threads, t)
    /\ platform_threads' = {p \in platform_threads : p.id /= t}
    /\ UNCHANGED <<feed, last_update_dt, dbVars, passVars, schedVars,
                   exclusive_mode, patch_threads, threads_created, w>>
    /\ UNCHANGED <<monVars, replyVars, fnVars>>

\* ----------------------------------------------------------------------
\* Table patch_threads
\* ----------------------------------------------------------------------
\* {patch_index: message_id}: the message sent for entry k of thread t
MapOf(t, sent) == [k \in sent |-> <<t, k>>]

\* PatchThreadRepository.mark_as_inactive
mark_as_inactive(threads, t) ==
    {IF x.thread_id = t THEN [x EXCEPT !.is_active = FALSE] ELSE x :
        x \in threads}

\* a DELETE that removes no row
delete_nothing(threads, t) == threads

\* PatchThreadRepository.delete
delete(threads, t) == {x \in threads : x.thread_id /= t}

\* an INSERT into a table without unique constraints
thread_service_create_unconstrained(cards, threads, m, t) ==
    IF ~HasRow(cards, m)
    THEN [rows |-> threads, exc |-> "none"]
    ELSE [rows |-> threads \cup
                   {[mid |-> m, thread_id |-> t, is_active |-> TRUE,
                     sub_patch_messages |-> MapOf(t, {}),
                     id |-> Cardinality(threads)]},
          exc |-> "none"]

\* ThreadService.create: nothing without the card; IntegrityError from the
\* unique constraints on patch_card_message_id_header and thread_id
thread_service_create(cards, threads, m, t) ==
    IF ~HasRow(cards, m)
    THEN [rows |-> threads, exc |-> "none"]
    ELSE IF \E x \in threads : x.mid = m \/ x.thread_id = t
    THEN [rows |-> threads, exc |-> "IntegrityError"]
    ELSE [rows |-> threads \cup
                   {[mid |-> m, thread_id |-> t, is_active |-> TRUE,
                     sub_patch_messages |-> MapOf(t, {}),
                     id |-> Cardinality(threads)]},
          exc |-> "none"]

\* an update that stores nothing
update_sub_patch_messages_lost(threads, t, map) == threads

\* PatchThreadRepository.update_sub_patch_messages
update_sub_patch_messages(threads, t, map) ==
    {IF x.thread_id = t THEN [x EXCEPT !.sub_patch_messages = map] ELSE x :
        x \in threads}

\* PatchCardRepository.mark_as_has_thread
mark_as_has_thread(cards, m) ==
    {IF c.mid = m THEN [c EXCEPT !.has_thread = TRUE] ELSE c : c \in cards}

\* ----------------------------------------------------------------------
\* The watch command
\* ----------------------------------------------------------------------
\* watch._check_existing_thread for the card of m, given the platform's
\* answer chk to the existence check: whether a live thread was found,
\* whether the thread is to be recreated, the thread the platform reported
\* missing, and table patch_threads afterwards
check_existing_thread(threads, m, chk) ==
    IF ~HasRow(threads, m)
    THEN [existing |-> FALSE, recreate |-> FALSE, stale |-> NoThread,
          threads |-> threads]
    ELSE LET t == RowOf(threads, m) IN
         IF ~t.is_active
         THEN [existing |-> FALSE, recreate |-> TRUE, stale |-> NoThread,
               threads |-> delete(threads, t.thread_id)]
         ELSE IF check_thread_exists(chk)
         THEN [existing |-> TRUE, recreate |-> FALSE, stale |-> NoThread,
               threads |-> threads]
         ELSE [existing |-> FALSE, recreate |-> TRUE,
               stale |-> IF chk = "404" THEN t.thread_id ELSE NoThread,
               threads |-> delete(mark_as_inactive(threads, t.thread_id),
                                  t.thread_id)]

\* the answers the platform can give to the check watch makes for m
WatchCheckOutcomes(threads, plat, m) ==
    IF HasRow(threads, m) /\ RowOf(threads, m).is_active
    THEN CheckOutcomes(plat, RowOf(threads, m).thread_id)
    ELSE {"none"}

\* handle_watch, steps 2 and 3: the card is resolved (and created when it
\* has to be) and the existing thread is checked
watch_resolve(cards, fms, threads, m, o, chk) ==
    LET plan == find_or_create_patch_card(cards, fms, m) IN
    IF plan.kind \in {"finish", "nothing"}
    THEN [kind |-> "not_found", mid |-> None, cards |-> cards,
          threads |-> threads, recreate |-> FALSE, stale |-> NoThread]
    ELSE IF plan.kind = "create" /\ ~send_discord_embed(o).id
    THEN [kind |-> "card_failed", mid |-> None, cards |-> cards,
          threads |-> threads, recreate |-> FALSE, stale |-> NoThread]
    ELSE LET cards1 ==
                 IF plan.kind = "create"
                 THEN cards \cup
                      {create_patch_card(build_service_feed_message(
                           RowOf(fms, plan.mid),
                           parse_patch_subject(Subject(plan.mid))))}
                 ELSE cards
             ck == check_existing_thread(threads, plan.mid, chk)
         IN IF ck.existing
            THEN [kind |-> "exists", mid |-> plan.mid, cards |-> cards1,
                  threads |-> ck.threads, recreate |-> FALSE,
                  stale |-> NoThread]
            ELSE [kind |-> "create", mid |-> plan.mid, cards |-> cards1,
                  threads |-> ck.threads, recreate |-> ck.recreate,
                  stale |-> ck.stale]

\* the inputs of watch_resolve that matter: the send outcome when a card is
\* created, the check outcome when an active record is found
ResolveInputs(cards, fms, threads, plat, m, o, chk) ==
    LET plan == find_or_create_patch_card(cards, fms, m) IN
    /\ plan.kind /= "create" => o = "ok"
    /\ chk \in (IF plan.kind \in {"existing", "create"}
                THEN WatchCheckOutcomes(threads, plat, plan.mid)
                ELSE {"none"})

\* watch._create_new_thread, after the thread is there: the record and its
\* map are stored in one session
persist_thread(cards, threads, m, t, sent) ==
    LET r == thread_service_create(cards, threads, m, t) IN
    IF r.exc /= "none" THEN r
    ELSE [rows |-> IF sent /= {}
                   THEN update_sub_patch_messages(r.rows, t, MapOf(t, sent))
                   ELSE r.rows,
          exc |-> "none"]

\* the sets of overview entries the platform can accept for the card of m
SentSets(cards, fms, m, co) ==
    IF co = "ok"
    THEN SUBSET render(prepare_thread_overview_data(cards, fms, m))
    ELSE {{}}

\* the command begins: handle_watch up to the decision to create a thread
WatchBegin(m, o, chk) ==
    /\ w.pc = "idle"
    /\ ResolveInputs(patch_cards, feed_messages, patch_threads,
                     platform_threads, m, o, chk)
    /\ LET r == watch_resolve(patch_cards, feed_messages, patch_threads,
                              m, o, chk)
       IN /\ patch_cards' = r.cards
          /\ patch_threads' = r.threads
          /\ w' = IF r.kind = "create"
                  THEN [pc |-> "create", mid |-> r.mid,
                        recreate |-> r.recreate, stale |-> r.stale,
                        thread_id |-> NoThread, sent |-> {},
                        reply |-> "none"]
                  ELSE IF r.kind = "exists"
                  THEN [pc |-> "existing", mid |-> r.mid,
                        recreate |-> FALSE, stale |-> NoThread,
                        thread_id |-> RowOf(r.threads, r.mid).thread_id,
                        sent |-> {}, reply |-> "none"]
                  ELSE WatchIdle(r.kind)
    /\ UNCHANGED <<feed, last_update_dt, feed_messages, passVars, schedVars,
                   exclusive_mode, platform_threads, threads_created>>
    /\ UNCHANGED <<monVars, replyVars, fnVars>>

\* watch._handle_existing_thread: the card is marked and the thread that is
\* already there is reported
WatchExisting ==
    /\ w.pc = "existing"
    /\ patch_cards' = mark_as_has_thread(patch_cards, w.mid)
    /\ w' = WatchIdle("exists")
    /\ UNCHANGED <<feed, last_update_dt, feed_messages, passVars, schedVars,
                   exclusive_mode, patch_threads, platform_threads,
                   threads_created>>
    /\ UNCHANGED <<monVars, replyVars, fnVars>>

\* _create_new_thread, steps 1 and 2: the overview is prepared, the thread
\* is created and the overview messages are sent; sent are the entries
\* whose message the platform accepted
WatchCreate(co) ==
    /\ w.pc = "create"
    /\ (co = "ok" /\ ThreadsOf(platform_threads, w.mid) = {})
           => threads_created < MaxThreads
    /\ \E sent \in SentSets(patch_cards, feed_messages, w.mid, co) :
       LET r == create_thread_and_send_overview(
                    platform_threads, threads_created, w.mid, co, sent)
       IN /\ platform_threads' = r.plat
          /\ threads_created' = r.created
          /\ w' = IF r.thread_id = NoThread
                  THEN WatchIdle("create_failed")
                  ELSE [w EXCEPT !.pc = "created",
                                 !.thread_id = r.thread_id,
                                 !.sent = r.sent]
    /\ UNCHANGED <<feed, last_update_dt, dbVars, passVars, schedVars,
                   exclusive_mode, patch_threads>>
    /\ UNCHANGED <<monVars, replyVars, fnVars>>

\* _create_new_thread, step 3: the PatchThread record and its map
WatchPersist ==
    /\ w.pc = "created"
    /\ LET r == persist_thread(patch_cards, patch_threads, w.mid,
                               w.thread_id, w.sent)
       IN /\ patch_threads' = r.rows
          /\ w' = IF r.exc /= "none" THEN WatchIdle("raised")
                  ELSE [w EXCEPT !.pc = "persisted"]
    /\ UNCHANGED <<feed, last_update_dt, dbVars, passVars, schedVars,
                   exclusive_mode, platform_threads, threads_created>>
    /\ UNCHANGED <<monVars, replyVars, fnVars>>

\* _create_new_thread, step 4, and the success message of handle_watch
WatchFinish ==
    /\ w.pc = "persisted"
    /\ patch_cards' = mark_as_has_thread(patch_cards, w.mid)
    /\ w' = WatchIdle(IF w.recreate THEN "recreated" ELSE "created")
    /\ UNCHANGED <<feed, last_update_dt, feed_messages, passVars, schedVars,
                   exclusive_mode, patch_threads, platform_threads,
                   threads_created>>
    /\ UNCHANGED <<monVars, replyVars, fnVars>>

\* a second watch command, given by another user while the first is at an
\* await: the whole of handle_watch, taken in one step
WatchOnce(m, o, chk, co) ==
    /\ w.pc /= "idle"
    /\ ResolveInputs(patch_cards, feed_messages, patch_threads,
                     platform_threads, m, o, chk)
    /\ LET r == watch_resolve(patch_cards, feed_messages, patch_threads,
                              m, o, chk)
       IN IF r.kind /= "create"
          THEN /\ co = "fail"
               /\ patch_cards' = IF r.kind = "exists"
                                 THEN mark_as_has_thread(r.cards, r.mid)
                                 ELSE r.cards
               /\ patch_threads' = r.threads
               /\ UNCHANGED <<platform_threads, threads_created>>
          ELSE \E sent \in SentSets(r.cards, feed_messages, r.mid, co) :
               /\ (co = "ok" /\ ThreadsOf(platform_threads, r.mid) = {})
                      => threads_created < MaxThreads
               /\ LET c == create_thread_and_send_overview(
                               platform_threads, threads_created, r.mid,
                               co, sent)
                      ps == persist_thread(r.cards, r.threads, r.mid,
                                           c.thread_id, c.sent)
                  IN /\ platform_threads' = c.plat
                     /\ threads_created' = c.created
                     /\ IF c.thread_id = NoThread
                        THEN /\ patch_threads' = r.threads
                             /\ patch_cards' = r.cards
                        ELSE IF ps.exc /= "none"
                        THEN /\ patch_threads' = r.threads
                             /\ patch_cards' = r.cards
                        ELSE /\ patch_threads' = ps.rows
                             /\ patch_cards' =
                                    mark_as_has_thread(r.cards, r.mid)
    /\ UNCHANGED <<feed, last_update_dt, feed_messages, passVars, schedVars,
                   exclusive_mode, w>>
    /\ UNCHANGED <<monVars, replyVars, fnVars>>

\* ----------------------------------------------------------------------
\* The system
\* ----------------------------------------------------------------------
Next ==
    \/ \E m \in Mids : Publish(m)
    \/ BeginPass
    \/ SaveStep
    \/ InsertStep
    \/ \E o \in SendOutcomes : ProcessStep(o)
    \/ \E k \in ErrKinds : Raise(k)
    \/ CommitStep
    \/ CommitConflict
    \/ FinishPass
    \/ \E o \in SendOutcomes : RunOnce(o)
    \/ Start
    \/ Stop
    \/ \E m \in Mids, o \in SendOutcomes : Watch(m, o)

Spec == Init /\ [][Next]_vars

\* ----------------------------------------------------------------------
\* The commands: run-monitor, filter and watch over a feed that is already
\* there, with the scheduler loop not started
\* ----------------------------------------------------------------------
CmdFeeds == {<<"p2", "p1", "cov">>, <<"top">>}

CheckInputs == {"200", "404", "timeout", "none"}

CmdInit ==
    /\ feed \in CmdFeeds
    /\ last_update_dt = 0
    /\ feed_messages = {}
    /\ patch_cards = {}
    /\ pc = "idle"
    /\ entries = <<>>
    /\ saved = 0
    /\ processed = 0
    /\ txFm = {}
    /\ txCards = {}
    /\ result = ResultOf("none", "none")
    /\ listing = <<>>
    /\ platform_failed = FALSE
    /\ errored = FALSE
    /\ is_running = FALSE
    /\ task_alive = FALSE
    /\ exclusive_mode = FALSE
    /\ patch_threads = {}
    /\ platform_threads = {}
    /\ threads_created = 0
    /\ w = WatchIdle("none")
    /\ supported = {"lkml"}
    /\ subscribed = {"lkml"}
    /\ feeds = [s \in Subsystems |-> <<>>]
    /\ overview_updates = {}
    /\ notifications = {}
    /\ FnIdle

\* a reply to a mail of the feed arrives on top of it
ReplyArrives(m) ==
    /\ Classification(m).is_reply
    /\ m \notin Range(feed)
    /\ Irt(m) \in Range(feed)
    /\ Ts(m) > Ts(Head(feed))
    /\ feed' = <<m>> \o feed
    /\ UNCHANGED <<last_update_dt, dbVars, passVars, schedVars>>
    /\ UNCHANGED cmdVars
    /\ UNCHANGED <<monVars, replyVars, fnVars>>

CmdNext ==
    \/ \E o \in SendOutcomes : RunOnce(o)
    \/ \E m \in Mids : ReplyArrives(m)
    \/ \E b \in BOOLEAN : SetExclusive(b)
    \/ \E m \in Mids, o \in SendOutcomes, chk \in CheckInputs :
           WatchBegin(m, o, chk)
    \/ WatchExisting
    \/ \E co \in CreateOutcomes : WatchCreate(co)
    \/ WatchPersist
    \/ WatchFinish
    \/ \E m \in Mids, o \in SendOutcomes, chk \in CheckInputs,
          co \in CreateOutcomes :
           WatchOnce(m, o, chk, co)
    \/ \E t \in 1..MaxThreads : PlatformDeleteThread(t)

CmdSpec == CmdInit /\ [][CmdNext]_vars

\* ----------------------------------------------------------------------
\* Several subsystems polled by the one FeedProcessor of the monitor: the
\* configuration and the subscriptions are those of the deployment, the
\* mails of each list arrive in the order of their timestamps, and every
\* pass succeeds
\* ----------------------------------------------------------------------
\* the mails posted to each list
ListMids(s) == IF s = "lkml" THEN {"cov", "p2"} ELSE {"p1", "rcv"}

\* the orders in which the query of the subscribed names can return them
Orders(S) == {o \in [1..Cardinality(S) -> S] : Range(o) = S}

\* FeedProcessor.process_feed on the feed fd of one subsystem, from the
\* mark and the tables of st: the entries newer than the mark are stored
\* and processed, and the mark is updated
process_feed(fd, st) ==
    LET es == filter_entries_by_date(fd, st.mark)
        view == View(st.fms,
                     {BuildFeedMessage(m) : m \in
                         {x \in Range(es) : ~HasRow(st.fms, x)}})
        needed == {m \in Range(es) : NeedsPatchCard(st.cards, view, m)}
    IN [mark |-> update_last_update_time(es, st.mark),
        fms |-> view,
        cards |-> st.cards \cup
                  {create_patch_card(ServiceFeedMessage(view, m)) :
                      m \in needed}]

\* how the pass over one subsystem goes: it succeeds; get_feed_entries
\* returns no entries (404, a parse failure with no entries, the last
\* attempt failed); or an exception of some kind is raised
PassOutcomes == {"ok", "unavailable"} \cup ErrKinds

\* LKMLFeedMonitor._process_subsystem: the result of process_feed, which
\* is an empty result without an error when get_feed_entries returned
\* nothing; an empty result and an error message for the exceptions it
\* catches; the others leave it
process_subsystem(fd, st, o) ==
    IF o = "ok"
    THEN [st |-> process_feed(fd, st), error |-> FALSE, raised |-> FALSE]
    ELSE IF o = "unavailable"
    THEN [st |-> st, error |-> FALSE, raised |-> FALSE]
    ELSE IF SubsystemCatches(o)
    THEN [st |-> st, error |-> TRUE, raised |-> FALSE]
    ELSE [st |-> st, error |-> FALSE, raised |-> TRUE]

\* the loop of run_monitoring from the subsystems of order on
RECURSIVE run_subsystems(_, _, _, _)
run_subsystems(order, fds, oc, acc) ==
    IF order = <<>> THEN acc
    ELSE LET r == process_subsystem(fds[Head(order)], acc.st,
                                    oc[Head(order)])
         IN IF r.raised
            THEN [acc EXCEPT !.returned = FALSE]
            ELSE run_subsystems(
                     Tail(order), fds, oc,
                     [acc EXCEPT
                        !.st = r.st,
                        !.processed = @ \cup {Head(order)},
                        !.error_count = @ + (IF r.error THEN 1 ELSE 0)])

\* LKMLFeedMonitor.run_monitoring: the subscribed subsystems one after the
\* other, each by the same processor; the statistics of the result
run_monitoring(order, fds, st, oc) ==
    LET r == run_subsystems(order, fds, oc,
                            [st |-> st, returned |-> TRUE,
                             processed |-> {}, error_count |-> 0])
    IN [st |-> r.st, returned |-> r.returned,
        total_subsystems |-> IF r.returned THEN Len(order) ELSE 0,
        processed |-> r.processed,
        error_count |-> r.error_count]

MonInit ==
    /\ feed = <<>>
    /\ last_update_dt = 0
    /\ feed_messages = {}
    /\ patch_cards = {}
    /\ pc = "idle"
    /\ entries = <<>>
    /\ saved = 0
    /\ processed = 0
    /\ txFm = {}
    /\ txCards = {}
    /\ result = ResultOf("none", "none")
    /\ listing = <<>>
    /\ platform_failed = FALSE
    /\ errored = FALSE
    /\ is_running = FALSE
    /\ task_alive = FALSE
    /\ exclusive_mode = FALSE
    /\ patch_threads = {}
    /\ platform_threads = {}
    /\ threads_created = 0
    /\ w = WatchIdle("none")
    /\ supported \in SUBSET Subsystems
    /\ subscribed \in SUBSET supported
    /\ feeds = [s \in Subsystems |-> <<>>]
    /\ overview_updates = {}
    /\ notifications = {}
    /\ FnIdle

\* a mail arrives on top of the feed of list s
MonPublish(s, m) ==
    /\ m \in ListMids(s)
    /\ m \notin Range(feeds[s])
    /\ IF feeds[s] = <<>> THEN TRUE ELSE Ts(m) > Ts(Head(feeds[s]))
    /\ feeds' = [feeds EXCEPT ![s] = <<m>> \o @]
    /\ UNCHANGED <<feed, last_update_dt, dbVars, passVars, schedVars,
                   supported, subscribed, monitoring_result, replyVars,
                   fnVars>>
    /\ UNCHANGED cmdVars

\* one cycle of monitoring_task: run_once and run_monitoring; an exception
\* that leaves run_monitoring is none of those monitoring_task catches,
\* and ends the task
Cycle(order, oc) ==
    /\ is_running
    /\ task_alive
    /\ order \in Orders(subscribed)
    /\ \A s \in Subsystems \ subscribed : oc[s] = "ok"
    /\ \E r \in {run_monitoring(order, feeds,
                                [mark |-> last_update_dt,
                                 fms |-> feed_messages,
                                 cards |-> patch_cards], oc)} :
          /\ last_update_dt' = r.st.mark
          /\ feed_messages' = r.st.fms
          /\ patch_cards' = r.st.cards
          /\ task_alive' = r.returned
          /\ monitoring_result' =
                 [order |-> order, outcomes |-> oc,
                  returned |-> r.returned,
                  total_subsystems |-> r.total_subsystems,
                  processed |-> r.processed,
                  error_count |-> r.error_count]
    /\ UNCHANGED <<feed, passVars, is_running, supported, subscribed,
                   feeds, replyVars, fnVars>>
    /\ UNCHANGED cmdVars

MonNext ==
    \/ \E s \in Subsystems, m \in Mids : MonPublish(s, m)
    \/ Start
    \/ Stop
    \/ \E order \in UNION {Orders(S) : S \in SUBSET Subsystems},
          oc \in [Subsystems -> PassOutcomes] :
           Cycle(order, oc)

MonSpec == MonInit /\ [][MonNext]_vars

\* ----------------------------------------------------------------------
\* One fetch of a feed: FeedProcessor.get_feed_entries
\* ----------------------------------------------------------------------
max_attempts == 3

\* what feedparser.parse comes to at one attempt: it raises, or it returns
\* a feed with a status (0: no status attribute), the bozo flag and
\* entries or none
FetchResponses ==
    {[raises |-> e, status |-> 0, bozo |-> FALSE, has_entries |-> FALSE] :
        e \in {"OSError", "ValueError"}}
    \cup {[raises |-> "none", status |-> st, bozo |-> b, has_entries |-> h] :
            st \in {0, 200, 301, 404, 503}, b \in BOOLEAN, h \in BOOLEAN}

\* FeedProcessor._handle_feed_status: whether to go on with the feed
handle_feed_status(feed_status) ==
    IF feed_status = 0 THEN TRUE
    ELSE IF feed_status = 404 THEN FALSE
    ELSE IF feed_status >= 400 THEN FALSE
    ELSE TRUE

\* FeedProcessor._handle_feed_bozo
handle_feed_bozo(r) ==
    IF ~r.bozo THEN TRUE
    ELSE r.has_entries

\* the loop of get_feed_entries from attempt on: the attempts made, the
\* delays slept, and whether entries were returned
RECURSIVE fetch_attempts(_, _, _, _)
fetch_attempts(rs, attempt, delay, slept) ==
    LET r == rs[attempt]
        gives_up == [attempts |-> attempt, slept |-> slept, ok |-> FALSE]
    IN IF r.raises \in {"OSError", "ValueError", "KeyError"}
       THEN IF attempt < max_attempts
            THEN fetch_attempts(rs, attempt + 1, delay * 2,
                                Append(slept, delay))
            ELSE gives_up
       ELSE IF ~handle_feed_status(r.status) THEN gives_up
       ELSE IF ~handle_feed_bozo(r) THEN gives_up
       ELSE [attempts |-> attempt, slept |-> slept, ok |-> r.has_entries]

\* FeedProcessor.get_feed_entries
get_feed_entries(rs) == fetch_attempts(rs, 1, 1, <<>>)

FetchInit ==
    /\ feed = <<>>
    /\ last_update_dt = 0
    /\ feed_messages = {}
    /\ patch_cards = {}
    /\ pc = "idle"
    /\ entries = <<>>
    /\ saved = 0
    /\ processed = 0
    /\ txFm = {}
    /\ txCards = {}
    /\ result = ResultOf("none", "none")
    /\ listing = <<>>
    /\ platform_failed = FALSE
    /\ errored = FALSE
    /\ is_running = FALSE
    /\ task_alive = FALSE
    /\ exclusive_mode = FALSE
    /\ patch_threads = {}
    /\ platform_threads = {}
    /\ threads_created = 0
    /\ w = WatchIdle("none")
    /\ supported = {"lkml"}
    /\ subscribed = {"lkml"}
    /\ feeds = [s \in Subsystems |-> <<>>]
    /\ overview_updates = {}
    /\ notifications = {}
    /\ monitoring_result = NoCycle
    /\ send = NoCall
    /\ store = {}
    /\ overview = NoOverview
    /\ \E rs \in [1..max_attempts -> FetchResponses] :
           fetch = [NoCall EXCEPT !.responses = rs]

\* one call of get_feed_entries
GetFeedEntries ==
    /\ ~fetch.done
    /\ LET r == get_feed_entries(fetch.responses)
       IN fetch' = [fetch EXCEPT !.done = TRUE, !.attempts = r.attempts,
                                 !.slept = r.slept, !.ok = r.ok]
    /\ UNCHANGED <<feed, last_update_dt, dbVars, passVars, schedVars,
                   cmdVars, monVars, replyVars, send, store, overview>>

FetchNext == GetFeedEntries

FetchSpec == FetchInit /\ [][FetchNext]_vars

\* ----------------------------------------------------------------------
\* One platform send: send_discord_embed, send_message_to_thread
\* ----------------------------------------------------------------------
max_retries == 3

\* what one POST comes to: an answer with a status, a 429 with or without
\* (NoInt) a retry_after in its body, or an exception of httpx
SendResponses ==
    {[exc |-> "none", status |-> st, retry_after |-> NoInt] :
        st \in {200, 400, 500}}
    \cup {[exc |-> "none", status |-> 429, retry_after |-> ra] :
            ra \in {NoInt, 2, 5}}
    \cup {[exc |-> e, status |-> 0, retry_after |-> NoInt] :
            e \in {"TimeoutException", "HTTPError"}}

\* response.json().get("retry_after", 1.0)
retry_after_of(r) == IF r.retry_after = NoInt THEN 1 ELSE r.retry_after

\* the retry loop of send_discord_embed from attempt on (attempt counts
\* from 0 as in the code): the attempts made, the delays slept, and
\* whether a message id is returned
RECURSIVE send_attempts(_, _, _)
send_attempts(rs, attempt, slept) ==
    LET r == rs[attempt + 1]
        ends(ok) == [attempts |-> attempt + 1, slept |-> slept, ok |-> ok]
    IN IF attempt >= max_retries
       THEN [attempts |-> attempt, slept |-> slept, ok |-> FALSE]
       ELSE IF r.exc = "TimeoutException"
       THEN IF attempt < max_retries - 1
            THEN send_attempts(rs, attempt + 1, Append(slept, 1))
            ELSE ends(FALSE)
       ELSE IF r.exc /= "none" THEN ends(FALSE)
       ELSE IF r.status \in {200, 201} THEN ends(TRUE)
       ELSE IF r.status = 429
       THEN IF attempt < max_retries - 1
            THEN send_attempts(rs, attempt + 1,
                               Append(slept, retry_after_of(r)))
            ELSE ends(FALSE)
       ELSE ends(FALSE)

\* send_discord_embed with its retry loop: a card or a notification into
\* the channel
send_discord_embed_loop(rs) == send_attempts(rs, 0, <<>>)

\* send_message_to_thread: the same loop, leaving it by break
send_message_to_thread(rs) == send_attempts(rs, 0, <<>>)

SendInit ==
    /\ feed = <<>>
    /\ last_update_dt = 0
    /\ feed_messages = {}
    /\ patch_cards = {}
    /\ pc = "idle"
    /\ entries = <<>>
    /\ saved = 0
    /\ processed = 0
    /\ txFm = {}
    /\ txCards = {}
    /\ result = ResultOf("none", "none")
    /\ listing = <<>>
    /\ platform_failed = FALSE
    /\ errored = FALSE
    /\ is_running = FALSE
    /\ task_alive = FALSE
    /\ exclusive_mode = FALSE
    /\ patch_threads = {}
    /\ platform_threads = {}
    /\ threads_created = 0
    /\ w = WatchIdle("none")
    /\ supported = {"lkml"}
    /\ subscribed = {"lkml"}
    /\ feeds = [s \in Subsystems |-> <<>>]
    /\ overview_updates = {}
    /\ notifications = {}
    /\ monitoring_result = NoCycle
    /\ fetch = NoCall
    /\ store = {}
    /\ overview = NoOverview
    /\ \E rs \in [1..max_retries + 1 -> SendResponses] :
           send = [NoCall EXCEPT !.responses = rs]

\* one send, by either function
SendOnce(f) ==
    /\ ~send.done
    /\ LET r == IF f = "send_discord_embed"
                THEN send_discord_embed_loop(send.responses)
                ELSE send_message_to_thread(send.responses)
       IN send' = [send EXCEPT !.done = TRUE, !.attempts = r.attempts,
                               !.slept = r.slept, !.ok = r.ok]
    /\ UNCHANGED <<feed, last_update_dt, dbVars, passVars, schedVars,
                   cmdVars, monVars, replyVars, fetch, store, overview>>

SendNext ==
    \E f \in {"send_discord_embed", "send_message_to_thread"} : SendOnce(f)

SendSpec == SendInit /\ [][SendNext]_vars

\* ----------------------------------------------------------------------
\* Replies of a card and their hierarchy (thread_service.py). Message ids
\* and In-Reply-To headers are strings, here sequences of characters
\* (numbers); Sp is white space, Lt and Gt the angle brackets.
\* ----------------------------------------------------------------------
Sp == 0
Lt == 8
Gt == 9

\* Python's `a in b` for strings
Contains(a, b) ==
    \E i \in 1..(Len(b) - Len(a) + 1) : SubSeq(b, i, i + Len(a) - 1) = a

RECURSIVE LStrip(_)
LStrip(h) == IF h /= <<>> /\ Head(h) = Sp THEN LStrip(Tail(h)) ELSE h

RECURSIVE RStrip(_)
RStrip(h) ==
    IF h /= <<>> /\ h[Len(h)] = Sp THEN RStrip(SubSeq(h, 1, Len(h) - 1))
    ELSE h

\* the characters up to the first white space; after LStrip, the first
\* element of str.split()
RECURSIVE UpToSp(_)
UpToSp(h) ==
    IF h = <<>> \/ Head(h) = Sp THEN <<>>
    ELSE <<Head(h)>> \o UpToSp(Tail(h))

\* _extract_message_id_from_header; <<>> stands for None and for ""
extract_message_id_from_header(in_reply_to_header) ==
    IF in_reply_to_header = <<>> THEN <<>>
    ELSE LET stripped == RStrip(LStrip(in_reply_to_header))
             cleaned == IF /\ Len(stripped) >= 1
                           /\ Head(stripped) = Lt
                           /\ stripped[Len(stripped)] = Gt
                        THEN SubSeq(stripped, 2, Len(stripped) - 1)
                        ELSE stripped
         IN UpToSp(LStrip(cleaned))

\* the rows of a set in the order of received_at
RECURSIVE ByReceivedAt(_)
ByReceivedAt(rows) ==
    IF rows = {} THEN <<>>
    ELSE LET first == CHOOSE r \in rows : \A q \in rows : r.ts <= q.ts
         IN <<first>> \o ByReceivedAt(rows \ {first})

\* FeedMessageRepository.find_replies_to: the rows whose in_reply_to_header
\* is the id or is LIKE %id%, oldest first, limit of them
find_replies_to(rows, message_id_header, limit) ==
    LET found == ByReceivedAt({r \in rows :
                                  \/ r.irt = message_id_header
                                  \/ /\ r.irt /= <<>>
                                     /\ Contains(message_id_header, r.irt)})
    IN SubSeq(found, 1, IF Len(found) < limit THEN Len(found) ELSE limit)

\* ThreadService.find_all_replies_to_patch, max_depth = 10
find_all_replies_to_patch(rows, patch_message_id) ==
    find_replies_to(rows, patch_message_id, 10 * 10)

\* FeedMessageRepository.find_by_message_id_header: the rows with the id
find_by_message_id_header(rows, id) == {r \in rows : r.mid = id}

Mid(replies) == [i \in 1..Len(replies) |-> replies[i].mid]

\* _find_parent_reply_in_list: the parent found (<<>>: None) and the
\* number of stored in_reply_to links followed; keys are those of
\* reply_map in the order of insertion
RECURSIVE find_parent_reply_in_list_from(_, _, _, _, _)
find_parent_reply_in_list_from(rows, in_reply_to, keys, patch_message_id, max_depth) ==
    LET extracted_id == extract_message_id_from_header(in_reply_to)
        none == [parent |-> <<>>, links |-> 0]
        fuzzy == {i \in 1..Len(keys) :
                     \/ Contains(extracted_id, keys[i])
                     \/ Contains(keys[i], extracted_id)}
        feed_msg == find_by_message_id_header(rows, extracted_id)
    IN IF max_depth <= 0 \/ in_reply_to = <<>> THEN none
       ELSE IF extracted_id = <<>> THEN none
       ELSE IF \/ extracted_id = patch_message_id
               \/ Contains(patch_message_id, extracted_id)
       THEN none
       ELSE IF extracted_id \in Range(keys)
       THEN [parent |-> extracted_id, links |-> 0]
       ELSE IF fuzzy /= {}
       THEN [parent |-> keys[CHOOSE i \in fuzzy : \A j \in fuzzy : i <= j],
             links |-> 0]
       ELSE IF feed_msg /= {} /\ (CHOOSE r \in feed_msg : TRUE).irt /= <<>>
       THEN LET up == find_parent_reply_in_list_from(
                          rows, (CHOOSE r \in feed_msg : TRUE).irt, keys,
                          patch_message_id, max_depth - 1)
            IN [parent |-> up.parent, links |-> up.links + 1]
       ELSE none

\* a search that follows the chain for as long as it goes on, up to the
\* number of rows there are
find_parent_reply_in_list_unbounded(rows, in_reply_to, keys, patch_message_id) ==
    find_parent_reply_in_list_from(rows, in_reply_to, keys,
                                   patch_message_id, Cardinality(rows) + 1)

\* _find_parent_reply_in_list with its default max_depth = 5
find_parent_reply_in_list(rows, in_reply_to, keys, patch_message_id) ==
    find_parent_reply_in_list_from(rows, in_reply_to, keys,
                                   patch_message_id, 5)

\* build_reply_hierarchy_internal: reply_map (its keys in the order of
\* insertion), for each key the parent it was appended to (<<>>: it is a
\* root) and the links followed to find it, and root_replies in the order
\* of time
build_reply_hierarchy(rows, patch_replies, patch_message_id) ==
    LET keys == Mid(patch_replies)
        found == [i \in 1..Len(patch_replies) |->
                    LET in_reply_to_raw == patch_replies[i].irt
                        in_reply_to ==
                            extract_message_id_from_header(in_reply_to_raw)
                    IN IF in_reply_to_raw = <<>> \/ in_reply_to = <<>>
                       THEN [parent |-> <<>>, links |-> 0]
                       ELSE IF \/ in_reply_to = patch_message_id
                               \/ Contains(patch_message_id, in_reply_to)
                       THEN [parent |-> <<>>, links |-> 0]
                       ELSE find_parent_reply_in_list(
                                rows, in_reply_to_raw, keys,
                                patch_message_id)]
    IN [reply_map |-> keys,
        parent |-> [i \in 1..Len(keys) |-> found[i].parent],
        links |-> [i \in 1..Len(keys) |-> found[i].links],
        root_replies |->
            Mid(ByReceivedAt({patch_replies[i] : i \in
                                {j \in 1..Len(keys) :
                                    found[j].parent = <<>>}}))]

\* the first loop of _filter_replies_for_patch, from reply i on: the
\* replies whose extracted in_reply_to contains the id of the patch
RECURSIVE direct_replies_from(_, _, _, _)
direct_replies_from(all_replies, i, patch_message_id, acc) ==
    IF i > Len(all_replies) THEN acc
    ELSE LET reply == all_replies[i]
             in_reply_to == extract_message_id_from_header(reply.irt)
             hit == /\ reply.irt /= <<>>
                    /\ in_reply_to /= <<>>
                    /\ \/ Contains(patch_message_id, in_reply_to)
                       \/ in_reply_to = patch_message_id
                    /\ reply \notin Range(acc.patch_replies)
         IN direct_replies_from(
                all_replies, i + 1, patch_message_id,
                IF hit
                THEN [patch_replies |-> Append(acc.patch_replies, reply),
                      patch_message_ids |->
                          Append(acc.patch_message_ids, reply.mid)]
                ELSE acc)

\* one run of the for loop inside `while changed`, from reply i on
RECURSIVE indirect_replies_from(_, _, _)
indirect_replies_from(all_replies, i, acc) ==
    IF i > Len(all_replies) THEN acc
    ELSE LET reply == all_replies[i]
             in_reply_to == extract_message_id_from_header(reply.irt)
             hit == /\ reply \notin Range(acc.patch_replies)
                    /\ reply.irt /= <<>>
                    /\ in_reply_to /= <<>>
                    /\ \E k \in 1..Len(acc.patch_message_ids) :
                           \/ Contains(acc.patch_message_ids[k], in_reply_to)
                           \/ in_reply_to = acc.patch_message_ids[k]
         IN indirect_replies_from(
                all_replies, i + 1,
                IF hit
                THEN [patch_replies |-> Append(acc.patch_replies, reply),
                      patch_message_ids |->
                          Append(acc.patch_message_ids, reply.mid)]
                ELSE acc)

\* the loop `while changed`
RECURSIVE while_changed(_, _)
while_changed(all_replies, acc) ==
    LET next == indirect_replies_from(all_replies, 1, acc)
    IN IF next = acc THEN acc ELSE while_changed(all_replies, next)

\* ThreadService._filter_replies_for_patch
filter_replies_for_patch(all_replies, patch_message_id) ==
    while_changed(
        all_replies,
        direct_replies_from(all_replies, 1, patch_message_id,
                            [patch_replies |-> <<>>,
                             patch_message_ids |-> <<patch_message_id>>])
    ).patch_replies

\* ThreadService.prepare_sub_patch_overview_data
prepare_sub_patch_overview_data(rows, patch, all_replies) ==
    LET patch_replies == filter_replies_for_patch(all_replies, patch.mid)
    IN [patch |-> patch.mid,
        replies |-> Mid(patch_replies),
        reply_hierarchy |->
            build_reply_hierarchy(rows, patch_replies, patch.mid)]

\* series_patches of the card of a cover letter, without the cover letter
RECURSIVE ByPatchIndex(_)
ByPatchIndex(rows) ==
    IF rows = {} THEN <<>>
    ELSE LET first == CHOOSE r \in rows :
                          \A q \in rows : r.patch_index <= q.patch_index
         IN <<first>> \o ByPatchIndex(rows \ {first})

\* ThreadService.prepare_thread_overview_data, steps 2 to 4, for the card
\* of a series: the replies, their hierarchy, and the data of each
\* sub-patch
thread_overview_replies(rows, message_id_header) ==
    LET replies == find_all_replies_to_patch(rows, message_id_header)
        patches == ByPatchIndex({r \in rows : r.patch_index >= 1})
    IN [done |-> TRUE,
        replies |-> Mid(replies),
        reply_hierarchy |->
            build_reply_hierarchy(rows, replies, message_id_header),
        sub_patch_overviews |->
            [i \in 1..Len(patches) |->
                prepare_sub_patch_overview_data(rows, patches[i], replies)]]

\* the rows of a series: the cover letter and two patches
CoverId == <<1>>

SeriesRows ==
    {[mid |-> CoverId, irt |-> <<>>, is_reply |-> FALSE, ts |-> 1,
      patch_index |-> 0],
     [mid |-> <<2>>, irt |-> CoverId, is_reply |-> FALSE, ts |-> 2,
      patch_index |-> 1],
     [mid |-> <<3>>, irt |-> CoverId, is_reply |-> FALSE, ts |-> 3,
      patch_index |-> 2]}

\* the Message-IDs of three replies, the third containing the first and
\* the id of the cover letter
ReplyIds == << <<4>>, <<5>>, <<4, 1>> >>

\* the In-Reply-To headers a reply can come with: the id of a stored
\* message, one string that contains two ids, two ids separated by white
\* space, an id in angle brackets, the id of a message not stored
Headers ==
    {<<1>>, <<2>>, <<3>>, <<4>>, <<5>>, <<4, 1>>, <<2, 1>>,
     <<4, Sp, 1>>, <<Lt, 2, Gt>>, <<7>>}

\* no reply with this Message-ID is stored
Absent == <<-1>>

\* a chain of n stored messages that are no replies to the series, each
\* in reply to the next, and what the last is in reply to: a message not
\* stored, the first of the chain, the second reply, the cover letter
MaxChain == 7

ChainId(i) == <<10 + i>>

\* the header of the first reply when it answers the chain: the id of the
\* first message of the chain and the id of the cover letter
ChainHead == ChainId(1) \o <<Sp>> \o CoverId

ChainRows(n, end) ==
    {[mid |-> ChainId(i),
      irt |-> IF i < n THEN ChainId(i + 1)
              ELSE IF end = "dangling" THEN <<7>>
              ELSE IF end = "cycle" THEN ChainId(1)
              ELSE IF end = "reply" THEN ReplyIds[2]
              ELSE CoverId,
      is_reply |-> TRUE, ts |-> 10 + i, patch_index |-> NoInt] :
        i \in 1..n}

ReplyRows(hs) ==
    {[mid |-> ReplyIds[i], irt |-> hs[i], is_reply |-> TRUE, ts |-> 3 + i,
      patch_index |-> NoInt] : i \in {j \in 1..3 : hs[j] /= Absent}}

TreeInit ==
    /\ feed = <<>>
    /\ last_update_dt = 0
    /\ feed_messages = {}
    /\ patch_cards = {}
    /\ pc = "idle"
    /\ entries = <<>>
    /\ saved = 0
    /\ processed = 0
    /\ txFm = {}
    /\ txCards = {}
    /\ result = ResultOf("none", "none")
    /\ listing = <<>>
    /\ platform_failed = FALSE
    /\ errored = FALSE
    /\ is_running = FALSE
    /\ task_alive = FALSE
    /\ exclusive_mode = FALSE
    /\ patch_threads = {}
    /\ platform_threads = {}
    /\ threads_created = 0
    /\ w = WatchIdle("none")
    /\ supported = {"lkml"}
    /\ subscribed = {"lkml"}
    /\ feeds = [s \in Subsystems |-> <<>>]
    /\ overview_updates = {}
    /\ notifications = {}
    /\ monitoring_result = NoCycle
    /\ fetch = NoCall
    /\ send = NoCall
    /\ overview = NoOverview
    /\ \E hs \in [1..3 -> Headers \cup {Absent, ChainHead}],
          n \in 0..MaxChain,
          end \in {"dangling", "cycle", "reply", "patch"} :
           /\ hs[2] /= ChainHead /\ hs[3] /= ChainHead
           /\ IF hs[1] = ChainHead THEN n >= 1
              ELSE n = 0 /\ end = "dangling"
           /\ store = SeriesRows \cup ReplyRows(hs) \cup ChainRows(n, end)

\* the overview data of the series card is prepared (a watch command, or
\* the update of the thread after a reply)
PrepareOverview ==
    /\ ~overview.done
    /\ overview' = thread_overview_replies(store, CoverId)
    /\ UNCHANGED <<feed, last_update_dt, dbVars, passVars, schedVars,
                   cmdVars, monVars, replyVars, fetch, send, store>>

TreeNext == PrepareOverview

TreeSpec == TreeInit /\ [][TreeNext]_vars

\* ----------------------------------------------------------------------
\* Properties
\* ----------------------------------------------------------------------

C2_SavesBeforeEffects ==
    [][/\ saved' > saved
            => processed = 0 /\ txCards = {} /\ ~platform_failed
       /\ processed' > processed => saved = Len(entries)]_vars

\* a pass over several entries has created a card after saving them all
C2_Witness ==
    /\ pc = "run"
    /\ Len(entries) >= 2
    /\ saved = Len(entries)
    /\ txCards /= {}

\* C3: the series listing attached to the cover-letter card a pass sends
\* holds every sub-patch of the series among the entries of the pass,
\* and nothing but sub-patches of the series, in increasing patch_index,
\* whatever the order of the entries in the feed.
C3_ListingOrderIndependent ==
    \A c \in txCards :
        c.is_cover_letter =>
            /\ \A m \in Range(entries) :
                  (/\ m /= c.mid
                   /\ Classification(m).series_message_id = c.mid
                   /\ Classification(m).patch_info.index /= 0)
                  => \E i \in 1..Len(listing) : listing[i].mid = m
            /\ \A i \in 1..Len(listing) :
                  /\ listing[i].mid /= c.mid
                  /\ listing[i].series_message_id = c.mid
                  /\ listing[i].patch_index /= 0
            /\ \A i, j \in 1..Len(listing) :
                  i < j => listing[i].patch_index < listing[j].patch_index

\* the cover letter stood in the feed above a sub-patch of its series, and
\* the card sent for it lists both sub-patches
C3_Witness ==
    \E c \in txCards :
        /\ c.is_cover_letter
        /\ Len(listing) = 2
        /\ \E i, j \in 1..Len(entries) :
              i < j /\ entries[i] = c.mid /\ entries[j] = listing[1].mid

C5_MarkNeverMovesBack ==
    [][last_update_dt' >= last_update_dt]_vars

C9_NoCardForSubPatch ==
    \A c \in patch_cards :
        LET cl == Classification(c.mid) IN
        ~(/\ cl.series_message_id /= None
          /\ cl.series_message_id /= c.mid
          /\ cl.patch_info.index > 0)

\* C10: every PatchCard with is_series_patch has its own message id as
\* series_message_id and is a cover letter.
C10_SeriesCardIsCoverLetter ==
    \A c \in patch_cards :
        c.is_series_patch
            => c.series_message_id = c.mid /\ c.is_cover_letter

\* C11: every stored FeedMessage with is_cover_letter has patch_index 0.
C11_CoverLetterHasIndexZero ==
    \A r \in feed_messages : r.is_cover_letter => r.patch_index = 0

\* C12: no FeedMessage, flushed or stored, has both is_patch and is_reply;
\* one whose subject starts with "re:" is a REPLY with is_patch false even
\* when the subject holds a bracketed PATCH token.
C12_PatchAndReplyExclusive ==
    \A r \in feed_messages \cup txFm :
        /\ ~(r.is_patch /\ r.is_reply)
        /\ Subject(r.mid).re => (r.is_reply /\ ~r.is_patch)

\* "Re: [PATCH 2/2] B" is stored
C12_Witness ==
    \E r \in feed_messages :
        Subject(r.mid).re /\ Subject(r.mid).patch /\ r.is_reply

\* C13: at most one FeedMessage row is stored per message_id_header, and a
\* pass whose INSERT runs into a row another pass has committed since its
\* lookup does not end in an error.
C13_ConflictDoesNotFailPass ==
    [][/\ \A m \in Mids : Cardinality(Rows(feed_messages', m)) <= 1
       /\ (pc = "insert" /\ HasRow(feed_messages, entries[saved + 1]))
             => result'.status \notin {"error", "raised"}]_vars


\* C14: while exclusive_mode is true, a feed pass creates a PatchCard only
\* for a PATCH that at least one enabled filter matches
C14_ExclusiveFeedCardsMatch ==
    [][(exclusive_mode /\ feed_messages' /= feed_messages)
           => \A c \in patch_cards' \ patch_cards : c.mid \in FilterMatched]_vars


\* C15: at most one PatchThread record exists per PatchCard after every
\* step, and a record is added by no step other than one of a watch
\* command: not by a feed pass, not by the filter command, not by the
\* platform
C15_OneThreadPerCard ==
    [][/\ \A m \in Mids : Cardinality(Rows(patch_threads', m)) <= 1
       /\ (patch_threads' \ patch_threads /= {})
              => /\ w.pc = "created" \/ w' = w
                 /\ feed_messages' = feed_messages
                 /\ last_update_dt' = last_update_dt
                 /\ exclusive_mode' = exclusive_mode
                 /\ \A t \in platform_threads :
                        ThreadExists(platform_threads', t.id)
                 /\ \A t \in patch_threads' \ patch_threads :
                        HasRow(patch_cards', t.mid)]_vars

\* two watch commands for one card overlapped and the second insert was
\* refused; the card has its one record
C15_Witness ==
    /\ w.reply = "raised"
    /\ \E t \in patch_threads : Cardinality(Rows(patch_threads, t.mid)) = 1


\* C16: for a card whose PatchThread record is active, a check the platform
\* answers with the thread finds the thread and leaves the table alone; the
\* command that found it creates no platform thread, sends no overview
\* message, leaves the record as it is and replies that the thread is
\* already there
C16_ExistingThreadUntouched ==
    [][/\ \A t \in patch_threads :
              (t.is_active /\ ThreadExists(platform_threads, t.thread_id))
                  => LET ck == check_existing_thread(patch_threads, t.mid,
                                                     "200")
                     IN ck.existing /\ ck.threads = patch_threads
       /\ (w.pc = "idle" /\ w'.pc = "existing")
              => /\ \E t \in patch_threads :
                        /\ t.mid = w'.mid /\ t.is_active
                        /\ t.thread_id = w'.thread_id
                        /\ ThreadExists(platform_threads, t.thread_id)
                 /\ UNCHANGED <<patch_threads, platform_threads,
                                threads_created>>
       /\ (w.pc = "existing" /\ w' /= w)
              => /\ w'.pc = "idle" /\ w'.reply = "exists"
                 /\ UNCHANGED <<patch_threads, platform_threads,
                                threads_created>>]_vars

\* a command has found the thread of its card alive
C16_Witness ==
    /\ w.pc = "existing"
    /\ \E t \in patch_threads : t.mid = w.mid /\ t.is_active


C18_GivenUpOnlyWhenMissing ==
    [][\A t \in patch_threads :
           (/\ t.is_active
            /\ ~\E u \in patch_threads' :
                   /\ u.mid = t.mid /\ u.thread_id = t.thread_id
                   /\ u.is_active)
               => ~ThreadExists(platform_threads, t.thread_id)]_vars


C23_RunningLoopIsAlive == is_running => task_alive

\* C24: a stop of the running scheduler leaves is_running false, the loop
\* task ended and its pass, if one was in flight, abandoned; no cycle begins
\* and no step of a pass is taken while is_running is false; a stop of a
\* scheduler that is not running changes nothing
C24_StopEndsLoop ==
    [][/\ (is_running /\ ~is_running')
              => /\ ~task_alive'
                 /\ pc' = "idle"
                 /\ pc /= "idle" => result'.status = "cancelled"
       /\ ~is_running
              => /\ ~task_alive /\ pc = "idle"
                 /\ stop(is_running, task_alive) =
                        [is_running |-> FALSE, task_alive |-> FALSE,
                         cancel |-> FALSE]
       /\ (~is_running /\ ~is_running')
              => UNCHANGED passVars]_vars

\* the scheduler has been stopped in the middle of a pass and new entries
\* wait in the feed
C24_Witness ==
    /\ ~is_running
    /\ ~task_alive
    /\ result.status = "cancelled"
    /\ filter_entries_by_date(feed, last_update_dt) /= <<>>


\* C25: the high-water mark is written by no step other than the one that
\* ends a successful pass of the scheduler loop
C25_OnlyLoopWritesMark ==
    [][last_update_dt' /= last_update_dt => (pc = "exit" /\ task_alive)]_vars

\* C26: a card is not sent for a message for which the pass in flight has
\* already sent one: no step outside that pass creates a card for a message
\* whose card the pass holds uncommitted, and the pass sends none for a
\* message whose card is stored
C26_CardSentAtMostOnce ==
    [][\A m \in Mids :
           /\ (pc' = pc /\ ~HasRow(patch_cards, m) /\ HasRow(patch_cards', m))
                  => ~HasRow(txCards, m)
           /\ (~HasRow(txCards, m) /\ HasRow(txCards', m))
                  => ~HasRow(patch_cards, m)]_vars

\* the newest timestamp among the entries; 0 when none has one
RECURSIVE NewestTs(_)
NewestTs(es) ==
    IF es = <<>> THEN 0
    ELSE LET rest == NewestTs(Tail(es)) IN
         IF Ts(Head(es)) > rest THEN Ts(Head(es)) ELSE rest

\* C28: the entries handed to the pipeline are the entries of the feed that
\* have no parseable timestamp or a timestamp newer than the high-water
\* mark, wherever they stand in the feed
C28_HandsOverExactlyNew ==
    Range(filter_entries_by_date(feed, last_update_dt)) =
        {m \in Range(feed) : Ts(m) = 0 \/ Ts(m) > last_update_dt}

\* C29: when a pass of the loop has committed and ends, the high-water mark
\* is the newest timestamp among the entries of the pass (and is left alone
\* when no entry of the pass has a timestamp)
C29_MarkIsNewestProcessed ==
    [][(pc = "exit" /\ pc' = "idle" /\ result'.status = "ok")
           => last_update_dt' = IF NewestTs(entries) = 0
                                THEN last_update_dt
                                ELSE NewestTs(entries)]_vars

\* C30: a step that moves the high-water mark is taken when the FeedMessage
\* of every entry of its pass is committed; a pass of the loop that fails or
\* is cancelled leaves the mark as it is, and each of its entries is either
\* committed by then or handed over again by the next get_feed_entries
C30_MarkFollowsCommit ==
    [][/\ (last_update_dt' /= last_update_dt /\ pc = "exit")
              => \A m \in Range(entries) : HasRow(feed_messages, m)
       /\ (last_update_dt' /= last_update_dt /\ pc /= "exit")
              => \A m \in Range(filter_entries_by_date(feed, last_update_dt)) :
                     HasRow(feed_messages', m)
       /\ (pc /= "idle" /\ pc' = "idle"
             /\ result'.status \in {"error", "raised", "cancelled"})
              => /\ last_update_dt' = last_update_dt
                 /\ \A m \in Range(entries) :
                        \/ HasRow(feed_messages', m)
                        \/ m \in Range(filter_entries_by_date(
                                           feed, last_update_dt'))]_vars

\* C22, as stated: the scheduler goes from stopped to running only while at
\* least one subsystem is subscribed (a start with no subscription leaves it
\* stopped)
C22_StartNeedsSubscription ==
    [][(~is_running /\ is_running') => subscribed /= {}]_vars

\* C22: start on a stopped scheduler is a no-op while no subsystem is
\* configured; the scheduler goes from stopped to running, with a
\* monitoring task, only while at least one subsystem is configured
C22_StartNeedsConfiguredSubsystem ==
    [][/\ (~is_running /\ supported = {})
           => /\ start(is_running, supported, subscribed) =
                     [is_running |-> FALSE, created |-> FALSE]
              /\ ~is_running'
       /\ (~is_running /\ is_running') => (supported /= {} /\ task_alive')
      ]_vars

\* the scheduler was started with a subsystem configured and none subscribed
C22_Witness == is_running /\ task_alive /\ supported /= {} /\ subscribed = {}

\* C27: no entry in the feed of a subscribed subsystem is left unstored
\* behind the high-water mark
C27_NoEntryBehindSharedMark ==
    \A s \in subscribed :
        \A m \in Range(feeds[s]) :
            HasRow(feed_messages, m) \/ Ts(m) > last_update_dt

\* C21: when a pass stores a REPLY to sub-patch N of a series whose card
\* has an active thread with a message stored for index N, the platform is
\* asked to edit that message and no other, and one notification is sent
\* for the thread
C21_ReplyUpdatesItsSlot ==
    [][\A m \in Mids : \A t \in patch_threads :
          LET N == parse_patch_subject(Subject(Irt(m))).index IN
          (/\ Classification(m).is_reply
           /\ Irt(m) /= None
           /\ HasRow(feed_messages, Irt(m))
           /\ t.mid = RowOf(feed_messages, Irt(m)).series_message_id
           /\ t.is_active
           /\ N \in DOMAIN t.sub_patch_messages
           /\ ~HasRow(feed_messages, m)
           /\ HasRow(feed_messages', m))
          => /\ overview_updates' =
                    overview_updates
                    \cup {<<t.thread_id, t.sub_patch_messages[N]>>}
             /\ notifications' = notifications \cup {t.thread_id}]_vars

\* C38: while is_running is true, so that start() returns "already running"
\* without creating a task, the monitoring task is alive
C38_RefusedStartMeansLiveLoop ==
    (is_running /\ ~start(is_running, supported, subscribed).created)
        => task_alive

\* C39: between two watch commands, every card with has_thread = True has
\* a row in patch_threads
C39_HasThreadMeansRecord ==
    w.pc = "idle"
        => \A c \in patch_cards : c.has_thread => HasRow(patch_threads, c.mid)

\* C40: when a watch command ends with its insert refused, another watch
\* command for the card having run meanwhile, the card has one record, the
\* thread of the record holds one overview message per entry, and every
\* message the record names is in that thread
C40_ConcurrentWatchesLeaveOneOverview ==
    (w.pc = "idle" /\ w.reply = "raised")
        => /\ patch_threads /= {}
           /\ \A r \in patch_threads :
                  /\ Cardinality(Rows(patch_threads, r.mid)) = 1
                  /\ \A p \in platform_threads :
                         p.id = r.thread_id
                             => /\ ~p.resent
                                /\ \A k \in DOMAIN r.sub_patch_messages :
                                       \E j \in p.msgs :
                                           r.sub_patch_messages[k]
                                               = <<p.id, j>>

\* C31: a cycle in which the pass over some subscribed subsystem fails
\* (no entries could be fetched, or an exception was raised) still
\* processes every subscribed subsystem and returns its result, with
\* every failed pass counted in error_count
C31_FailureEndsOnlyItsPass ==
    LET r == monitoring_result IN
    r.order /= <<>>
        => /\ r.returned
           /\ r.processed = Range(r.order)
           /\ r.total_subsystems = Len(r.order)
           /\ r.error_count =
                  Cardinality({s \in Range(r.order) : r.outcomes[s] /= "ok"})

\* C32: a fetch makes at most 3 attempts, an attempt that fails
\* transiently is followed by another unless it was the third, the fetch
\* waits 1 s after the first failed attempt and 2 s after the second, and
\* after a third failure it returns no entries; an attempt fails
\* transiently by a timeout of the connection or of the read or by a 5xx
\* response
C32_TransientFailureIsRetried ==
    LET TransientFailure(r) == r.raises = "OSError" \/ r.status >= 500 IN
    fetch.done
        => /\ fetch.attempts <= 3
           /\ \A i \in 1..2 :
                  (i <= fetch.attempts /\ TransientFailure(fetch.responses[i]))
                      => fetch.attempts > i
           /\ Len(fetch.slept) = fetch.attempts - 1
           /\ \A i \in 1..Len(fetch.slept) : fetch.slept[i] = i
           /\ (fetch.attempts = 3 /\ TransientFailure(fetch.responses[3]))
                  => ~fetch.ok

\* C33: a send that receives a 429 sleeps for the retry_after of the
\* answer and tries again, for up to 3 retries; an answer with another
\* 4xx or 5xx status ends the send at once, with no message sent
C33_RateLimitRetriedThreeTimes ==
    send.done
        => /\ \A i \in 1..max_retries :
                  (i <= send.attempts /\ send.responses[i].status = 429)
                      => /\ send.attempts > i
                         /\ send.slept[i] = retry_after_of(send.responses[i])
           /\ \A i \in 1..send.attempts :
                  send.responses[i].status \in {400, 500}
                      => /\ send.attempts = i
                         /\ Len(send.slept) = i - 1
                         /\ ~send.ok
           /\ send.attempts <= max_retries + 1

\* the stored replies reachable from the ids through In-Reply-To headers
\* that contain the id of the patch, of a reply to it, and so on
RECURSIVE ReplyClosure(_, _)
ReplyClosure(rows, found) ==
    LET ids == {CoverId} \cup {r.mid : r \in found}
        more == {r \in rows :
                    /\ r.is_reply
                    /\ r.irt /= <<>>
                    /\ \E id \in ids : Contains(id, r.irt)}
    IN IF more \subseteq found THEN found
       ELSE ReplyClosure(rows, found \cup more)

\* C34: the replies collected for the cover letter of the card contain
\* every stored reply that answers it, answers a reply to it, and so on
C34_RepliesOfRepliesCollected ==
    overview.done
        => \A r \in ReplyClosure(store, {}) : r.mid \in Range(overview.replies)

\* C35: a stored reply whose In-Reply-To is the id of a sub-patch is in
\* the reply tree of that sub-patch, in the tree of no other sub-patch and
\* not in the tree of the cover letter
C35_SubPatchReplyInOwnTree ==
    overview.done
        => \A i \in 1..Len(overview.sub_patch_overviews) :
               \A r \in store :
                   (/\ r.is_reply
                    /\ extract_message_id_from_header(r.irt)
                           = overview.sub_patch_overviews[i].patch)
                   => /\ r.mid \in Range(overview.sub_patch_overviews[i]
                                            .reply_hierarchy.reply_map)
                      /\ \A j \in 1..Len(overview.sub_patch_overviews) :
                             j /= i
                                 => r.mid \notin
                                        Range(overview.sub_patch_overviews[j]
                                                  .reply_hierarchy.reply_map)
                      /\ r.mid \notin
                             Range(overview.reply_hierarchy.reply_map)

\* the hierarchies of the overview data
Hierarchies ==
    {overview.reply_hierarchy}
    \cup {overview.sub_patch_overviews[i].reply_hierarchy :
            i \in 1..Len(overview.sub_patch_overviews)}

\* C36: the search for the parent of a reply follows at most 5 stored
\* in_reply_to links, whatever the stored chain is, and a reply for which
\* it finds no parent is a root; a parent it finds is a collected reply
C36_ParentSearchBounded ==
    overview.done
        => \A h \in Hierarchies :
               \A i \in 1..Len(h.reply_map) :
                   /\ h.links[i] <= 5
                   /\ h.parent[i] = <<>>
                          => h.reply_map[i] \in Range(h.root_replies)
                   /\ h.parent[i] /= <<>>
                          => h.parent[i] \in Range(h.reply_map)

\* the first reply answered a chain of more than 5 stored messages, or a
\* chain that comes back to its first message; the search followed 5
\* links and the reply is a root
C36_Witness ==
    /\ overview.done
    /\ \E r \in store : r.mid = ChainId(6) \/ r.irt = ChainId(1)
    /\ \E i \in 1..Len(overview.reply_hierarchy.reply_map) :
           /\ overview.reply_hierarchy.reply_map[i] = ReplyIds[1]
           /\ overview.reply_hierarchy.links[i] = 5
           /\ ReplyIds[1] \in Range(overview.reply_hierarchy.root_replies)

\* a key of reply_map from which the parents lead to a root in at most n
\* steps
RECURSIVE Rooted(_, _, _)
Rooted(h, id, n) ==
    LET i == CHOOSE k \in 1..Len(h.reply_map) : h.reply_map[k] = id
    IN IF n = 0 THEN FALSE
       ELSE IF h.parent[i] = <<>> THEN id \in Range(h.root_replies)
       ELSE /\ h.parent[i] \in Range(h.reply_map)
            /\ Rooted(h, h.parent[i], n - 1)

\* C37: every hierarchy of the overview data is a forest: each collected
\* reply is a root or the child of one other collected reply, none is its
\* own parent or ancestor, and each is reached from a root
C37_HierarchyIsForest ==
    overview.done
        => \A h \in Hierarchies :
               \A i \in 1..Len(h.reply_map) :
                   /\ h.parent[i] /= h.reply_map[i]
                   /\ (h.parent[i] = <<>>)
                          <=> (h.reply_map[i] \in Range(h.root_replies))
                   /\ Rooted(h, h.reply_map[i], Len(h.reply_map))

====
